---- MODULE Spec2Model ----
(***************************************************************************)
(* mcp-confluence: the Storage Format engine (Parse, Render, Validate),    *)
(* the REST client's write path and the tool handlers built on it.         *)
(*                                                                         *)
(* Strings.  A Go string is a sequence of atoms.  An atom is a TLA+ string *)
(* standing for a fixed run of bytes:                                      *)
(*   - one character: "1" "2" (plain text, not a name-start character),    *)
(*     " " (white space), "<" ">" "&" "'" "\"" (the XML-reserved five),    *)
(*     "^A" (the control character U+0001, illegal in XML);                *)
(*   - a word: "status", "danger", ... (letters; used for macro names and  *)
(*     parameter keys; never written directly after a raw "<" or "&");     *)
(*   - an entity reference as html.EscapeString spells it: "&lt;" ...;     *)
(*   - a markup lexeme: "<table>", "</table>", "<hr/>", "<![CDATA[", ...   *)
(* Two strings are equal iff their atom sequences are equal.               *)
(***************************************************************************)
EXTENDS Integers, Sequences, FiniteSets, TLC

VARIABLES
    \* ---- ValidateWithOptions, one loop iteration per step ----
    opts,        \* the ValidatorOptions of the running call
    open,        \* the decoder's stack of open elements (qualified names)
    tok,         \* the token the last decoder.Token() call returned
    tableDepth,  \* var tableDepth int
    tbodyFound,  \* var tbodyFound bool
    verr,        \* the error the call returns (NoErr: nil)
    vpc,         \* "idle", "running" (inside the loop) or "done" (returned)
    frames,      \* history: per open table, was a tbody start-tag entered
                 \* while that table was the innermost open table
    AllowedMacros,  \* var AllowedMacros = map[string]bool{} (package level)
    \* ---- Render / Parse / Validate as whole calls ----
    page,        \* the IR value handed to Render
    xhtml,       \* the markup string handed to Parse / Validate
    res,         \* the record of the last whole call
    json,        \* the JSON value between blockToJSON and parseBlock
    calls,       \* per goroutine: the library call it is running
    \* ---- the MCP server: HandleTool and runStdio ----
    tool,        \* the HandleTool call: its name, its state and what it returned
    stdin,       \* the bytes of standard input not yet read
    stdout,      \* the responses written to standard output, in order
    \* ---- the REST client and the tool handlers ----
    log,         \* the events of the last client / handler call, in order
    ret,         \* what that call returned
    version      \* the platform's current version number of the page

vars == <<opts, open, tok, tableDepth, tbodyFound, verr, vpc, frames,
          AllowedMacros, page, xhtml, res, json, calls, tool, stdin, stdout,
          log, ret, version>>

valVars == <<opts, open, tok, tableDepth, tbodyFound, verr, vpc, frames,
            AllowedMacros>>
callVars == <<page, xhtml, res, json>>
clientVars == <<log, ret, version>>
ioVars == <<calls, tool, stdin, stdout>>

(***************************************************************************)
(* Sequence helpers.                                                       *)
(***************************************************************************)
Last(s) == s[Len(s)]
Front(s) == SubSeq(s, 1, Len(s) - 1)

\* v, bound to a name once: F applied to the value of v.
With(v, F(_)) == CHOOSE y \in {F(x) : x \in {v}} : TRUE

RECURSIVE Concat(_)
Concat(ss) == IF ss = <<>> THEN <<>> ELSE Head(ss) \o Concat(Tail(ss))

RECURSIVE SeqsUpTo(_, _)
SeqsUpTo(S, n) ==
    IF n = 0 THEN {<<>>}
    ELSE LET shorter == SeqsUpTo(S, n - 1)
         IN  shorter \cup {Append(s, x) : s \in {t \in shorter : Len(t) = n - 1}, x \in S}

(***************************************************************************)
(* html.EscapeString: the five reserved characters become entity           *)
(* references, every other atom is copied.                                 *)
(***************************************************************************)
EscapeAtom(a) ==
    CASE a = "&"  -> "&amp;"
      [] a = "'"  -> "&#39;"
      [] a = "<"  -> "&lt;"
      [] a = ">"  -> "&gt;"
      [] a = "\"" -> "&#34;"
      [] OTHER    -> a

EscapeString(s) == [i \in 1..Len(s) |-> EscapeAtom(s[i])]

(***************************************************************************)
(* strings.TrimSpace: leading and trailing white space removed.            *)
(***************************************************************************)
RECURSIVE TrimLeft(_)
TrimLeft(s) == IF s # <<>> /\ Head(s) = " " THEN TrimLeft(Tail(s)) ELSE s

RECURSIVE TrimRight(_)
TrimRight(s) == IF s # <<>> /\ Last(s) = " " THEN TrimRight(Front(s)) ELSE s

TrimSpace(s) == TrimRight(TrimLeft(s))

(***************************************************************************)
(* encoding/xml's Decoder (Strict), as the repository uses it: the input   *)
(* wrapped in <root xmlns:ac=... xmlns:ri=...>, Entity = htmlEntities.     *)
(* A token is a start-tag (local name and attributes), an end-tag, a run   *)
(* of character data (entities decoded), or the decoder's error.           *)
(***************************************************************************)
NoAttr == <<>>
StartTok(n, at) == [k |-> "start", name |-> n, attrs |-> at, data |-> <<>>]
EndTok(n)       == [k |-> "end",   name |-> n, attrs |-> NoAttr, data |-> <<>>]
TextTok(d)      == [k |-> "text",  name |-> "", attrs |-> NoAttr, data |-> d]
ErrTok          == [k |-> "err",   name |-> "", attrs |-> NoAttr, data |-> <<>>]
NoTok           == [k |-> "none",  name |-> "", attrs |-> NoAttr, data |-> <<>>]
Attr(l, v)      == [Local |-> l, Value |-> v]

\* Qualified element names the lexemes spell, and Name.Local of each.
PlainNames == {"root", "table", "tbody", "tr", "th", "td", "p",
               "h1", "h2", "h3", "h4", "h5", "h6", "h7", "ul", "ol", "li", "hr",
               "b", "x",
               "thead", "tfoot", "colgroup", "col", "div", "span", "script",
               "style", "iframe", "form", "input", "button"}
AcNames == {"structured-macro", "parameter", "rich-text-body", "plain-text-body",
            "div"}
QNames == PlainNames \cup {"ac:" \o n : n \in AcNames}
Local(q) == IF q \in PlainNames THEN q ELSE CHOOSE n \in AcNames : q = "ac:" \o n

STag(q)     == "<" \o q \o ">"          \* <q>
ETag(q)     == "</" \o q \o ">"         \* </q>
SelfTag(q)  == "<" \o q \o "/>"         \* <q/>
AttrOpen(q) == "<" \o q \o " ac:name=\""  \* <q ac:name="   (value and "> follow)
AttrClose   == "\">"
CDataOpen   == "<![CDATA["
CDataClose  == "]]>"

StartAtoms == {STag(q) : q \in QNames}
EndAtoms   == {ETag(q) : q \in QNames}
SelfAtoms  == {SelfTag(q) : q \in QNames}
AttrAtoms  == {AttrOpen(q) : q \in QNames}
QOfStart(a) == CHOOSE q \in QNames : STag(q) = a
QOfEnd(a)   == CHOOSE q \in QNames : ETag(q) = a
QOfSelf(a)  == CHOOSE q \in QNames : SelfTag(q) = a
QOfAttr(a)  == CHOOSE q \in QNames : AttrOpen(q) = a

Entities == {"&amp;", "&#39;", "&lt;", "&gt;", "&#34;"}
DecodeAtom(a) ==
    CASE a = "&amp;" -> "&"
      [] a = "&#39;" -> "'"
      [] a = "&lt;"  -> "<"
      [] a = "&gt;"  -> ">"
      [] a = "&#34;" -> "\""
      [] OTHER       -> a
Decode(s) == [i \in 1..Len(s) |-> DecodeAtom(s[i])]

Ctrl == "^A"
Words == {"status", "danger", "info", "code", "language", "colour", "title", "go"}
PlainChars == {"1", "2", " ", ">", "'", "\""} \cup Words
\* Atoms the decoder accepts inside character data / inside a quoted
\* attribute value.  A raw "&" starts no entity of the table, Ctrl is
\* outside the XML character range, "]]>" is not allowed outside CDATA.
TextOK == PlainChars \cup Entities
AttrOK == (PlainChars \ {"\""}) \cup Entities
\* Atoms that belong to a run of text (everything that is not markup).
TextRun == TextOK \cup {"&", Ctrl, CDataClose}

\* The end of the maximal run of atoms of s from position i that lie in S.
RECURSIVE RunEnd(_, _, _)
RunEnd(s, i, S) == IF i <= Len(s) /\ s[i] \in S THEN RunEnd(s, i + 1, S) ELSE i

\* The first position from i on that holds atom a (Len(s) + 1 if none does).
RECURSIVE FirstAt(_, _, _)
FirstAt(s, i, a) == IF i <= Len(s) /\ s[i] # a THEN FirstAt(s, i + 1, a) ELSE i

\* The tokens the decoder returns for atoms s[i..], given its element stack;
\* after ErrTok nothing follows.
RECURSIVE Lex(_, _, _)
Lex(s, i, stack) ==
    IF i > Len(s)
    THEN IF stack = <<>> THEN <<>> ELSE <<ErrTok>>      \* unexpected EOF
    ELSE LET a == s[i] IN
      CASE a \in StartAtoms ->
             <<StartTok(Local(QOfStart(a)), NoAttr)>>
                 \o Lex(s, i + 1, Append(stack, QOfStart(a)))
        [] a \in SelfAtoms ->
             <<StartTok(Local(QOfSelf(a)), NoAttr), EndTok(Local(QOfSelf(a)))>>
                 \o Lex(s, i + 1, stack)
        [] a \in EndAtoms ->
             IF stack # <<>> /\ Last(stack) = QOfEnd(a)
             THEN <<EndTok(Local(QOfEnd(a)))>> \o Lex(s, i + 1, Front(stack))
             ELSE <<ErrTok>>                            \* closed by another tag
        [] a \in AttrAtoms ->
             With(RunEnd(s, i + 1, AttrOK), LAMBDA j :
                 IF j <= Len(s) /\ s[j] = AttrClose
                 THEN <<StartTok(Local(QOfAttr(a)),
                                 <<Attr("name", Decode(SubSeq(s, i + 1, j - 1)))>>)>>
                          \o Lex(s, j + 1, Append(stack, QOfAttr(a)))
                 ELSE <<ErrTok>>)
        [] a = CDataOpen ->
             With(FirstAt(s, i + 1, CDataClose), LAMBDA j :
                 IF j <= Len(s) /\ Ctrl \notin {s[n] : n \in i + 1..j - 1}
                 THEN <<TextTok(SubSeq(s, i + 1, j - 1))>> \o Lex(s, j + 1, stack)
                 ELSE <<ErrTok>>)
        [] a \in TextRun ->
             With(RunEnd(s, i, TextRun), LAMBDA j :
                 IF \A n \in i..j - 1 : s[n] \in TextOK
                 THEN <<TextTok(Decode(SubSeq(s, i, j - 1)))>> \o Lex(s, j, stack)
                 ELSE <<ErrTok>>)
        [] OTHER -> <<ErrTok>>                          \* raw "<", stray "\">"

\* xml.NewDecoder(strings.NewReader(wrapped)): every token of the wrapped input.
Tokenize(x) ==
    With(<<STag("root")>> \o x \o <<ETag("root")>>, LAMBDA wrapped : Lex(wrapped, 1, <<>>))


(***************************************************************************)
(* The validator (storage/validate.go).                                    *)
(***************************************************************************)
NoErr == [Message |-> "", Tag |-> <<>>]
ValidationError(m, t) == [Message |-> m, Tag |-> t]

\* var ForbiddenTags = map[string]bool{...}
ForbiddenTags == {"thead", "tfoot", "colgroup", "col", "div", "span", "script",
                  "style", "iframe", "form", "input", "button"}

\* A map[string]bool whose entries are all true is the set of its keys.
DefaultValidatorOptions ==
    [RequireTableTbody |-> TRUE, AllowedMacros |-> {}, ForbiddenTags |-> ForbiddenTags]

\* getMacroName: the value of the first attribute whose local name is "name",
\* the empty string when there is none.
getMacroName(el) ==
    IF \E i \in 1..Len(el.attrs) : el.attrs[i].Local = "name"
    THEN el.attrs[CHOOSE i \in 1..Len(el.attrs) :
                     /\ el.attrs[i].Local = "name"
                     /\ \A j \in 1..i - 1 : el.attrs[j].Local # "name"].Value
    ELSE <<>>

\* Mutant: the package-level set is consulted instead of the options' set.
IsForbiddenGlobal(o, name) == name \in ForbiddenTags

\* if opts.ForbiddenTags[name]
IsForbidden(o, name) == name \in o.ForbiddenTags

\* if name == "structured-macro" && len(opts.AllowedMacros) > 0 { ... }
IsDisallowedMacro(o, t) ==
    /\ t.name = "structured-macro"
    /\ o.AllowedMacros # {}
    /\ getMacroName(t) # <<>>
    /\ getMacroName(t) \notin o.AllowedMacros

VState(td, tf, e) == [tableDepth |-> td, tbodyFound |-> tf, err |-> e]

\* case xml.StartElement: "Track table structure"
TrackTable(o, td, tf, name) ==
    LET td1 == IF name = "table" THEN td + 1 ELSE td
        tf1 == IF name = "table" THEN FALSE ELSE tf
        tf2 == IF name = "tbody" /\ td1 > 0 THEN TRUE ELSE tf1
    IN  IF name = "tr" /\ td1 > 0 /\ ~tf2 /\ o.RequireTableTbody
        THEN VState(td1, tf2, ValidationError("<tr> must be inside <tbody>", <<"tr">>))
        ELSE VState(td1, tf2, NoErr)

\* Mutant: the table structure is checked before the forbidden tags.
ValidateStartTableFirst(o, td, tf, t) ==
    IF TrackTable(o, td, tf, t.name).err # NoErr
    THEN TrackTable(o, td, tf, t.name)
    ELSE IF IsForbidden(o, t.name)
    THEN VState(td, tf, ValidationError("forbidden tag", <<t.name>>))
    ELSE IF IsDisallowedMacro(o, t)
    THEN VState(td, tf, ValidationError("disallowed macro", getMacroName(t)))
    ELSE TrackTable(o, td, tf, t.name)

\* case xml.StartElement
ValidateStart(o, td, tf, t) ==
    IF IsForbidden(o, t.name)
    THEN VState(td, tf, ValidationError("forbidden tag", <<t.name>>))
    ELSE IF IsDisallowedMacro(o, t)
    THEN VState(td, tf, ValidationError("disallowed macro", getMacroName(t)))
    ELSE TrackTable(o, td, tf, t.name)

\* case xml.EndElement
ValidateEnd(o, td, tf, t) ==
    IF t.name = "table"
    THEN IF ~tf /\ o.RequireTableTbody
         THEN VState(td, tf, ValidationError("<table> must contain <tbody>", <<"table">>))
         ELSE VState(td - 1, tf, NoErr)
    ELSE VState(td, tf, NoErr)

\* One iteration of the loop of ValidateWithOptions on the token t that
\* decoder.Token() returned (ErrTok: it returned an error).
ValidateToken(o, td, tf, t) ==
    CASE t.k = "err"   -> VState(td, tf, ValidationError("invalid XML", <<>>))
      [] t.k = "start" -> ValidateStart(o, td, tf, t)
      [] t.k = "end"   -> ValidateEnd(o, td, tf, t)
      [] OTHER         -> VState(td, tf, NoErr)

RECURSIVE ValidateFrom(_, _, _, _, _)
ValidateFrom(o, toks, i, td, tf) ==
    IF i > Len(toks) THEN NoErr                         \* io.EOF: break
    ELSE With(ValidateToken(o, td, tf, toks[i]), LAMBDA r :
             IF r.err # NoErr THEN r.err
             ELSE ValidateFrom(o, toks, i + 1, r.tableDepth, r.tbodyFound))

ValidateWithOptions(x, o) ==
    IF x = <<>> THEN NoErr
    ELSE With(Tokenize(x), LAMBDA toks : ValidateFrom(o, toks, 1, 0, FALSE))

Validate(x) == ValidateWithOptions(x, DefaultValidatorOptions)


(***************************************************************************)
(* The IR (storage/types.go).  A Go string is a sequence of atoms, a       *)
(* map[string]string a function, a nil *Macro the empty sequence and a     *)
(* non-nil one a one-element sequence.                                     *)
(***************************************************************************)
Table(h, r)        == [type |-> "table", Headers |-> h, Rows |-> r]
Row(c)             == [Cells |-> c]
Cell(t, m)         == [Text |-> t, Macro |-> m]
NilMacro           == <<>>
MacroV(n, ps, b)   == [Name |-> n, Params |-> ps, Body |-> b]
Macro(n, ps, b)    == [type |-> "macro", Name |-> n, Params |-> ps, Body |-> b]
Paragraph(t)       == [type |-> "paragraph", Text |-> t]
Heading(l, t)      == [type |-> "heading", Level |-> l, Text |-> t]
ListItem(t)        == [Text |-> t]
BulletList(it)     == [type |-> "bullet_list", Items |-> it]
NumberedList(it)   == [type |-> "numbered_list", Items |-> it]
CodeBlock(l, c)    == [type |-> "code_block", Language |-> l, Code |-> c]
HorizontalRule     == [type |-> "horizontal_rule"]
Page(bs)           == [Blocks |-> bs]
NoParams           == [k \in {} |-> <<>>]
\* Absence: a nil pointer of a block variant, a nil Block interface value
\* and a nil *Page.
NilPtr(type)       == [type |-> type, nil |-> TRUE]
NilBlock           == [type |-> "nil"]
NilPage            == [nil |-> TRUE]
IsNil(v)           == "nil" \in DOMAIN v

(***************************************************************************)
(* The renderer (storage/render.go).  A result is the string and whether   *)
(* an error was returned.                                                  *)
(***************************************************************************)
Rendered(s)  == [out |-> s, err |-> FALSE]
RenderError  == [out |-> <<>>, err |-> TRUE]

\* for key, val := range m.Params: Go fixes no iteration order.  ord is a
\* sequence of keys without repetition; the keys of the map are visited in
\* the order in which they occur in ord.
KeysInOrder(ps, ord) == SelectSeq(ord, LAMBDA k : k \in DOMAIN ps)

RenderParam(key, val) ==
    <<AttrOpen("ac:parameter")>> \o EscapeString(key) \o <<AttrClose>>
        \o EscapeString(val) \o <<ETag("ac:parameter")>>

RenderMacro(m, ord) ==
    IF IsNil(m) THEN <<>> ELSE
    LET keys == KeysInOrder(m.Params, ord)
    IN  <<AttrOpen("ac:structured-macro")>> \o EscapeString(m.Name) \o <<AttrClose>>
          \o Concat([i \in 1..Len(keys) |-> RenderParam(keys[i], m.Params[keys[i]])])
          \o (IF m.Body # <<>>
              THEN <<STag("ac:rich-text-body")>> \o m.Body \o <<ETag("ac:rich-text-body")>>
              ELSE <<>>)
          \o <<ETag("ac:structured-macro")>>

renderCell(c, ord) ==
    IF c.Macro # NilMacro THEN RenderMacro(c.Macro[1], ord) ELSE EscapeString(c.Text)

renderRow(r, ord) ==
    <<"<tr>">>
      \o Concat([i \in 1..Len(r.Cells) |-> <<"<td>">> \o renderCell(r.Cells[i], ord) \o <<"</td>">>])
      \o <<"</tr>">>

renderTable(t, ord) ==
    IF IsNil(t) THEN <<>> ELSE
    <<"<table>", "<tbody>">>
      \o (IF Len(t.Headers) > 0
          THEN <<"<tr>">>
                 \o Concat([i \in 1..Len(t.Headers) |->
                              <<"<th>">> \o EscapeString(t.Headers[i]) \o <<"</th>">>])
                 \o <<"</tr>">>
          ELSE <<>>)
      \o Concat([i \in 1..Len(t.Rows) |-> renderRow(t.Rows[i], ord)])
      \o <<"</tbody>", "</table>">>

renderParagraph(b) ==
    IF IsNil(b) THEN <<>> ELSE <<"<p>">> \o EscapeString(b.Text) \o <<"</p>">>

\* fmt.Sprintf("<h%d>...</h%d>") for a level in 1..6.
HName(level) == <<"h1", "h2", "h3", "h4", "h5", "h6">>[level]

\* renderHeading with the level clamped into 1..6 instead of rejected.
renderHeadingClamped(h) ==
    IF IsNil(h) THEN Rendered(<<>>)
    ELSE Rendered(<<STag(HName(IF h.Level < 1 THEN 1 ELSE IF h.Level > 6 THEN 6 ELSE h.Level))>>
                     \o EscapeString(h.Text)
                     \o <<ETag(HName(IF h.Level < 1 THEN 1 ELSE IF h.Level > 6 THEN 6 ELSE h.Level))>>)

renderHeading(h) ==
    IF IsNil(h) THEN Rendered(<<>>)
    ELSE IF h.Level < 1 \/ h.Level > 6 THEN RenderError
    ELSE Rendered(<<STag(HName(h.Level))>> \o EscapeString(h.Text)
                     \o <<ETag(HName(h.Level))>>)

renderItems(items) ==
    Concat([i \in 1..Len(items) |->
              <<"<li>">> \o EscapeString(items[i].Text) \o <<"</li>">>])

renderBulletList(bl) ==
    IF IsNil(bl) THEN <<>> ELSE <<"<ul>">> \o renderItems(bl.Items) \o <<"</ul>">>
renderNumberedList(nl) ==
    IF IsNil(nl) THEN <<>> ELSE <<"<ol>">> \o renderItems(nl.Items) \o <<"</ol>">>

renderCodeBlock(cb) ==
    IF IsNil(cb) THEN <<>> ELSE
    <<AttrOpen("ac:structured-macro"), "code", AttrClose>>
      \o (IF cb.Language # <<>>
          THEN <<AttrOpen("ac:parameter"), "language", AttrClose>>
                 \o EscapeString(cb.Language) \o <<ETag("ac:parameter")>>
          ELSE <<>>)
      \o <<STag("ac:plain-text-body"), CDataOpen>> \o cb.Code
      \o <<CDataClose, ETag("ac:plain-text-body"), ETag("ac:structured-macro")>>

RenderBlock(b, ord) ==
    CASE b.type = "table"           -> Rendered(renderTable(b, ord))
      [] b.type = "paragraph"       -> Rendered(renderParagraph(b))
      [] b.type = "heading"         -> renderHeading(b)
      [] b.type = "macro"           -> Rendered(RenderMacro(b, ord))
      [] b.type = "bullet_list"     -> Rendered(renderBulletList(b))
      [] b.type = "numbered_list"   -> Rendered(renderNumberedList(b))
      [] b.type = "code_block"      -> Rendered(renderCodeBlock(b))
      [] b.type = "horizontal_rule" -> Rendered(<<"<hr/>">>)
      [] OTHER                      -> RenderError

\* Render that keeps what was rendered before the failing block.
RenderPartial(pg, ords) ==
    IF pg = NilPage THEN Rendered(<<>>) ELSE
    LET rs == [i \in 1..Len(pg.Blocks) |-> RenderBlock(pg.Blocks[i], ords[i])]
        ok == {i \in 0..Len(rs) : \A j \in 1..i : ~rs[j].err}
        n  == CHOOSE i \in ok : \A j \in ok : j <= i
    IN  [out |-> Concat([i \in 1..n |-> rs[i].out]), err |-> n < Len(rs)]

\* Render: the blocks' renderings in page order, or the first error.
\* ords[i] is the iteration order of the maps of block i.
Render(pg, ords) ==
    IF pg = NilPage THEN Rendered(<<>>) ELSE
    LET rs == [i \in 1..Len(pg.Blocks) |-> RenderBlock(pg.Blocks[i], ords[i])]
    IN  IF \E i \in 1..Len(rs) : rs[i].err THEN RenderError
        ELSE Rendered(Concat([i \in 1..Len(rs) |-> rs[i].out]))

(***************************************************************************)
(* The parser (storage/parse.go).  The decoder is the token sequence and   *)
(* the index i of the token the next decoder.Token() call returns; beyond  *)
(* the last token the call returns io.EOF.  Every function returns its     *)
(* value, the decoder's position after it, and whether it failed.          *)
(***************************************************************************)
R(v, i, e) == [val |-> v, pos |-> i, err |-> e]
Fail(i)    == R(<<>>, i, TRUE)

\* skipElement that stops at the first end-tag it meets.
RECURSIVE skipLoopFirstEnd(_, _, _)
skipLoopFirstEnd(toks, i, depth) ==
    IF depth <= 0 \/ i > Len(toks) THEN R(<<>>, i, FALSE)
    ELSE CASE toks[i].k = "err"   -> Fail(i)
           [] toks[i].k = "end"   -> R(<<>>, i + 1, FALSE)
           [] OTHER               -> skipLoopFirstEnd(toks, i + 1, depth)

\* func skipElement: depth counter, every start-tag +1, every end-tag -1.
RECURSIVE skipLoop(_, _, _)
skipLoop(toks, i, depth) ==
    IF depth <= 0 \/ i > Len(toks) THEN R(<<>>, i, FALSE)
    ELSE CASE toks[i].k = "err"   -> Fail(i)
           [] toks[i].k = "start" -> skipLoop(toks, i + 1, depth + 1)
           [] toks[i].k = "end"   -> skipLoop(toks, i + 1, depth - 1)
           [] OTHER               -> skipLoop(toks, i + 1, depth)

skipElement(toks, i) == skipLoop(toks, i, 1)

\* func extractNestedText: all character data up to the matching end-tag.
RECURSIVE nestedLoop(_, _, _, _)
nestedLoop(toks, i, depth, content) ==
    IF depth <= 0 \/ i > Len(toks) THEN R(TrimSpace(content), i, FALSE)
    ELSE CASE toks[i].k = "err"   -> Fail(i)
           [] toks[i].k = "text"  -> nestedLoop(toks, i + 1, depth, content \o toks[i].data)
           [] toks[i].k = "start" -> nestedLoop(toks, i + 1, depth + 1, content)
           [] toks[i].k = "end"   -> nestedLoop(toks, i + 1, depth - 1, content)
           [] OTHER               -> nestedLoop(toks, i + 1, depth, content)

extractNestedText(toks, i) == nestedLoop(toks, i, 1, <<>>)

\* func parseTextContent: character data up to </endTag>, nested elements skipped.
RECURSIVE parseTextContent(_, _, _, _)
parseTextContent(toks, i, endTag, content) ==
    IF i > Len(toks) THEN R(content, i, FALSE)
    ELSE CASE toks[i].k = "err"   -> Fail(i)
           [] toks[i].k = "text"  -> parseTextContent(toks, i + 1, endTag, content \o toks[i].data)
           [] toks[i].k = "end"   ->
                IF toks[i].name = endTag THEN R(TrimSpace(content), i + 1, FALSE)
                ELSE parseTextContent(toks, i + 1, endTag, content)
           [] toks[i].k = "start" ->
                With(skipElement(toks, i + 1), LAMBDA sk :
                    IF sk.err THEN Fail(sk.pos)
                    ELSE parseTextContent(toks, sk.pos, endTag, content))
           [] OTHER -> parseTextContent(toks, i + 1, endTag, content)

\* for _, attr := range start.Attr { if attr.Name.Local == "name" {...} }:
\* the last attribute named "name" wins, "" when there is none.
RECURSIVE NameAttr(_, _)
NameAttr(attrs, name) ==
    IF attrs = <<>> THEN name
    ELSE NameAttr(Tail(attrs),
                  IF Head(attrs).Local = "name" THEN Head(attrs).Value ELSE name)

SetParam(ps, k, v) == [x \in DOMAIN ps \cup {k} |-> IF x = k THEN v ELSE ps[x]]

\* func parseMacro: the loop after the name has been read.
RECURSIVE macroLoop(_, _, _)
macroLoop(toks, i, macro) ==
    IF i > Len(toks) THEN R(macro, i, FALSE)
    ELSE LET t == toks[i] IN
      CASE t.k = "err" -> Fail(i)
        [] t.k = "start" /\ t.name = "parameter" ->
             With(parseTextContent(toks, i + 1, "parameter", <<>>), LAMBDA v :
                 IF v.err THEN Fail(v.pos)
                 ELSE macroLoop(toks, v.pos,
                        IF NameAttr(t.attrs, <<>>) # <<>>
                        THEN [macro EXCEPT !.Params =
                                SetParam(macro.Params, NameAttr(t.attrs, <<>>), v.val)]
                        ELSE macro))
        [] t.k = "start" /\ t.name \in {"rich-text-body", "plain-text-body"} ->
             With(parseTextContent(toks, i + 1, t.name, <<>>), LAMBDA b :
                 IF b.err THEN Fail(b.pos)
                 ELSE macroLoop(toks, b.pos, [macro EXCEPT !.Body = b.val]))
        [] t.k = "start" ->
             With(skipElement(toks, i + 1), LAMBDA sk :
                 IF sk.err THEN Fail(sk.pos) ELSE macroLoop(toks, sk.pos, macro))
        [] t.k = "end" /\ t.name = "structured-macro" -> R(macro, i + 1, FALSE)
        [] OTHER -> macroLoop(toks, i + 1, macro)

parseMacro(toks, i, start) ==
    macroLoop(toks, i, MacroV(NameAttr(start.attrs, <<>>), NoParams, <<>>))

\* func parseTableCell
RECURSIVE cellLoop(_, _, _, _, _)
cellLoop(toks, i, tagName, cell, content) ==
    IF i > Len(toks) THEN R(cell, i, FALSE)
    ELSE LET t == toks[i] IN
      CASE t.k = "err" -> Fail(i)
        [] t.k = "start" /\ t.name = "structured-macro" ->
             With(parseMacro(toks, i + 1, t), LAMBDA m :
                 IF m.err THEN Fail(m.pos)
                 ELSE cellLoop(toks, m.pos, tagName,
                               [cell EXCEPT !.Macro = <<m.val>>], content))
        [] t.k = "start" ->
             With(extractNestedText(toks, i + 1), LAMBDA n :
                 IF n.err THEN Fail(n.pos)
                 ELSE cellLoop(toks, n.pos, tagName, cell,
                        content
                          \o (IF Len(content) > 0 /\ Len(n.val) > 0 THEN <<" ">> ELSE <<>>)
                          \o n.val))
        [] t.k = "text" -> cellLoop(toks, i + 1, tagName, cell, content \o t.data)
        [] t.k = "end" /\ t.name = tagName ->
             R([cell EXCEPT !.Text = TrimSpace(content)], i + 1, FALSE)
        [] OTHER -> cellLoop(toks, i + 1, tagName, cell, content)

parseTableCell(toks, i, tagName) == cellLoop(toks, i, tagName, Cell(<<>>, NilMacro), <<>>)

\* func parseTableRow: val is <<row, isHeader>>.
RECURSIVE rowLoop(_, _, _, _)
rowLoop(toks, i, cells, isHeader) ==
    IF i > Len(toks) THEN R(<<Row(cells), isHeader>>, i, FALSE)
    ELSE LET t == toks[i] IN
      CASE t.k = "err" -> Fail(i)
        [] t.k = "start" /\ t.name \in {"th", "td"} ->
             With(parseTableCell(toks, i + 1, t.name), LAMBDA c :
                 IF c.err THEN Fail(c.pos)
                 ELSE rowLoop(toks, c.pos, Append(cells, c.val),
                              isHeader \/ t.name = "th"))
        [] t.k = "start" ->
             With(skipElement(toks, i + 1), LAMBDA sk :
                 IF sk.err THEN Fail(sk.pos) ELSE rowLoop(toks, sk.pos, cells, isHeader))
        [] t.k = "end" /\ t.name = "tr" -> R(<<Row(cells), isHeader>>, i + 1, FALSE)
        [] OTHER -> rowLoop(toks, i + 1, cells, isHeader)

parseTableRow(toks, i) == rowLoop(toks, i, <<>>, FALSE)

\* if isHeader { for _, cell := range row.Cells { table.Headers = append(...) } }
\* else { table.Rows = append(table.Rows, *row) }
AddRow(table, row, isHeader) ==
    IF isHeader
    THEN [table EXCEPT !.Headers = @ \o [i \in 1..Len(row.Cells) |-> row.Cells[i].Text]]
    ELSE [table EXCEPT !.Rows = Append(@, row)]

\* func parseTbody
RECURSIVE parseTbody(_, _, _)
parseTbody(toks, i, table) ==
    IF i > Len(toks) THEN R(table, i, FALSE)
    ELSE LET t == toks[i] IN
      CASE t.k = "err" -> Fail(i)
        [] t.k = "start" /\ t.name = "tr" ->
             With(parseTableRow(toks, i + 1), LAMBDA r :
                 IF r.err THEN Fail(r.pos)
                 ELSE parseTbody(toks, r.pos, AddRow(table, r.val[1], r.val[2])))
        [] t.k = "start" ->
             With(skipElement(toks, i + 1), LAMBDA sk :
                 IF sk.err THEN Fail(sk.pos) ELSE parseTbody(toks, sk.pos, table))
        [] t.k = "end" /\ t.name = "tbody" -> R(table, i + 1, FALSE)
        [] OTHER -> parseTbody(toks, i + 1, table)

\* func parseTable
RECURSIVE tableLoop(_, _, _)
tableLoop(toks, i, table) ==
    IF i > Len(toks) THEN R(table, i, FALSE)
    ELSE LET t == toks[i] IN
      CASE t.k = "err" -> Fail(i)
        [] t.k = "start" /\ t.name = "tbody" ->
             With(parseTbody(toks, i + 1, table), LAMBDA b :
                 IF b.err THEN Fail(b.pos) ELSE tableLoop(toks, b.pos, b.val))
        [] t.k = "start" /\ t.name = "tr" ->
             With(parseTableRow(toks, i + 1), LAMBDA r :
                 IF r.err THEN Fail(r.pos)
                 ELSE tableLoop(toks, r.pos, AddRow(table, r.val[1], r.val[2])))
        [] t.k = "start" ->
             With(skipElement(toks, i + 1), LAMBDA sk :
                 IF sk.err THEN Fail(sk.pos) ELSE tableLoop(toks, sk.pos, table))
        [] t.k = "end" /\ t.name = "table" -> R(table, i + 1, FALSE)
        [] OTHER -> tableLoop(toks, i + 1, table)

parseTable(toks, i) == tableLoop(toks, i, Table(<<>>, <<>>))

\* The shared loop of parseParagraph, parseHeading and parseListItem:
\* character data and the text of nested elements, up to an end-tag whose
\* local name is in ends.  Beyond the last token the untrimmed text is returned.
RECURSIVE textLoop(_, _, _, _)
textLoop(toks, i, ends, content) ==
    IF i > Len(toks) THEN R(content, i, FALSE)
    ELSE LET t == toks[i] IN
      CASE t.k = "err"  -> Fail(i)
        [] t.k = "text" -> textLoop(toks, i + 1, ends, content \o t.data)
        [] t.k = "end" /\ t.name \in ends -> R(TrimSpace(content), i + 1, FALSE)
        [] t.k = "start" ->
             With(extractNestedText(toks, i + 1), LAMBDA n :
                 IF n.err THEN Fail(n.pos)
                 ELSE textLoop(toks, n.pos, ends, content \o n.val))
        [] OTHER -> textLoop(toks, i + 1, ends, content)

parseParagraph(toks, i) ==
    With(textLoop(toks, i, {"p"}, <<>>), LAMBDA r :
        IF r.err THEN r ELSE R(Paragraph(r.val), r.pos, FALSE))

\* level := int(start.Name.Local[1] - '0')
HLevel(name) ==
    CHOOSE l \in 0..9 :
        name = "h" \o <<"0", "1", "2", "3", "4", "5", "6", "7", "8", "9">>[l + 1]
\* strings.HasPrefix(t.Name.Local, "h")
HPrefixed == {n \in QNames : \E l \in 1..6 : n = HName(l)} \cup {"h7", "hr"}

parseHeading(toks, i, start) ==
    With(textLoop(toks, i, HPrefixed, <<>>), LAMBDA r :
        IF r.err THEN r ELSE R(Heading(HLevel(start.name), r.val), r.pos, FALSE))

parseListItem(toks, i) ==
    With(textLoop(toks, i, {"li"}, <<>>), LAMBDA r :
        IF r.err THEN r ELSE R(ListItem(r.val), r.pos, FALSE))

\* The shared loop of parseBulletList (endTag "ul") and parseNumberedList ("ol").
RECURSIVE listLoop(_, _, _, _)
listLoop(toks, i, endTag, items) ==
    IF i > Len(toks) THEN R(items, i, FALSE)
    ELSE LET t == toks[i] IN
      CASE t.k = "err" -> Fail(i)
        [] t.k = "start" /\ t.name = "li" ->
             With(parseListItem(toks, i + 1), LAMBDA it :
                 IF it.err THEN Fail(it.pos)
                 ELSE listLoop(toks, it.pos, endTag, Append(items, it.val)))
        [] t.k = "start" ->
             With(skipElement(toks, i + 1), LAMBDA sk :
                 IF sk.err THEN Fail(sk.pos) ELSE listLoop(toks, sk.pos, endTag, items))
        [] t.k = "end" /\ t.name = endTag -> R(items, i + 1, FALSE)
        [] OTHER -> listLoop(toks, i + 1, endTag, items)

parseBulletList(toks, i) ==
    With(listLoop(toks, i, "ul", <<>>), LAMBDA r :
        IF r.err THEN r ELSE R(BulletList(r.val), r.pos, FALSE))

parseNumberedList(toks, i) ==
    With(listLoop(toks, i, "ol", <<>>), LAMBDA r :
        IF r.err THEN r ELSE R(NumberedList(r.val), r.pos, FALSE))

\* func parseElement: val is <<>> for a nil block, <<block>> otherwise.
Some(r) == IF r.err THEN r ELSE R(<<r.val>>, r.pos, FALSE)

\* Mutant: every h followed by a digit is a heading.
IsHeadingNameAnyDigit(name) == name \in {"h1", "h2", "h3", "h4", "h5", "h6", "h7"}
\* case "h1", "h2", "h3", "h4", "h5", "h6":
IsHeadingName(name) == name \in {"h1", "h2", "h3", "h4", "h5", "h6"}

parseElement(toks, i, start) ==
    CASE start.name = "root"  -> R(<<>>, i, FALSE)
      [] start.name = "table" -> Some(parseTable(toks, i))
      [] start.name = "p"     -> Some(parseParagraph(toks, i))
      [] IsHeadingName(start.name) -> Some(parseHeading(toks, i, start))
      [] start.name = "ul"    -> Some(parseBulletList(toks, i))
      [] start.name = "ol"    -> Some(parseNumberedList(toks, i))
      [] start.name = "hr"    -> R(<<HorizontalRule>>, i, FALSE)
      [] start.name = "structured-macro" ->
             With(parseMacro(toks, i, start), LAMBDA m :
                 IF m.err THEN m
                 ELSE R(<<Macro(m.val.Name, m.val.Params, m.val.Body)>>, m.pos, FALSE))
      [] OTHER -> With(skipElement(toks, i), LAMBDA sk :
                      IF sk.err THEN Fail(sk.pos) ELSE R(<<>>, sk.pos, FALSE))

\* The loop of Parse returning, with the error, the blocks parsed so far.
RECURSIVE parseLoopPartial(_, _, _)
parseLoopPartial(toks, i, blocks) ==
    IF i > Len(toks) THEN [page |-> Page(blocks), err |-> FALSE]
    ELSE CASE toks[i].k = "err" -> [page |-> Page(blocks), err |-> TRUE]
           [] toks[i].k = "start" ->
                With(parseElement(toks, i + 1, toks[i]), LAMBDA b :
                    IF b.err THEN [page |-> Page(blocks), err |-> TRUE]
                    ELSE parseLoopPartial(toks, b.pos, blocks \o b.val))
           [] OTHER -> parseLoopPartial(toks, i + 1, blocks)

\* The loop of Parse: return nil, err at the first error.
RECURSIVE parseLoop(_, _, _)
parseLoop(toks, i, blocks) ==
    IF i > Len(toks) THEN [page |-> Page(blocks), err |-> FALSE]
    ELSE CASE toks[i].k = "err" -> [page |-> NilPage, err |-> TRUE]
           [] toks[i].k = "start" ->
                With(parseElement(toks, i + 1, toks[i]), LAMBDA b :
                    IF b.err THEN [page |-> NilPage, err |-> TRUE]
                    ELSE parseLoop(toks, b.pos, blocks \o b.val))
           [] OTHER -> parseLoop(toks, i + 1, blocks)

Parse(x) ==
    IF x = <<>> THEN [page |-> Page(<<>>), err |-> FALSE]
    ELSE With(Tokenize(x), LAMBDA toks : parseLoop(toks, 1, <<>>))

(***************************************************************************)
(* The JSON conversion (mcpserver/convert.go).  A value carries its Go     *)
(* type: blockToJSON builds strings, ints, []string, []interface{},        *)
(* map[string]string and map[string]interface{}; what encoding/json        *)
(* decodes into interface{} holds strings, float64, []interface{} and      *)
(* map[string]interface{} only.  Object keys are Go strings.               *)
(***************************************************************************)
JString(s)   == [j |-> "string", s |-> s]
JInt(n)      == [j |-> "int", n |-> n]
JFloat(n)    == [j |-> "float64", n |-> n]
JStrings(a)  == [j |-> "[]string", a |-> a]
JArray(a)    == [j |-> "[]interface{}", a |-> a]
JStrMap(m)   == [j |-> "map[string]string", m |-> m]
JObject(m)   == [j |-> "map[string]interface{}", m |-> m]
JNull        == [j |-> "nil"]
NoJSON       == [j |-> "none"]

K(w) == <<w>>   \* the Go string spelt w

cellToJSON(cell) ==
    IF cell.Macro # NilMacro
    THEN JObject(K("macro") :>
             JObject((K("name") :> JString(cell.Macro[1].Name))
                  @@ (K("params") :> JStrMap(cell.Macro[1].Params))))
    ELSE JString(cell.Text)

\* func blockToJSON
blockToJSON(b) ==
    CASE b.type = "table" ->
           JObject((K("type") :> JString(K("table")))
                @@ (K("headers") :> JStrings(b.Headers))
                @@ (K("rows") :> JArray([i \in 1..Len(b.Rows) |->
                       JArray([n \in 1..Len(b.Rows[i].Cells) |->
                                  cellToJSON(b.Rows[i].Cells[n])])])))
      [] b.type = "paragraph" ->
           JObject((K("type") :> JString(K("paragraph")))
                @@ (K("text") :> JString(b.Text)))
      [] b.type = "heading" ->
           JObject((K("type") :> JString(K("heading")))
                @@ (K("level") :> JInt(b.Level))
                @@ (K("text") :> JString(b.Text)))
      [] b.type = "bullet_list" ->
           JObject((K("type") :> JString(K("bullet_list")))
                @@ (K("items") :> JStrings([i \in 1..Len(b.Items) |-> b.Items[i].Text])))
      [] b.type = "numbered_list" ->
           JObject((K("type") :> JString(K("numbered_list")))
                @@ (K("items") :> JStrings([i \in 1..Len(b.Items) |-> b.Items[i].Text])))
      [] b.type = "macro" ->
           JObject((K("type") :> JString(K("macro")))
                @@ (K("name") :> JString(b.Name))
                @@ (K("params") :> JStrMap(b.Params))
                @@ (K("body") :> JString(b.Body)))
      [] b.type = "code_block" ->
           JObject((K("type") :> JString(K("code_block")))
                @@ (K("language") :> JString(b.Language))
                @@ (K("code") :> JString(b.Code)))
      [] b.type = "horizontal_rule" ->
           JObject(K("type") :> JString(K("horizontal_rule")))
      [] OTHER -> JObject(K("type") :> JString(K("unknown")))

\* encoder.Encode(response) and json.Unmarshal into interface{}: the value
\* the peer's decoder builds from the encoded text.
RECURSIVE JSONDecoded(_)
JSONDecoded(v) ==
    CASE v.j = "int"      -> JFloat(v.n)
      [] v.j = "[]string" -> JArray([i \in 1..Len(v.a) |-> JString(v.a[i])])
      [] v.j = "[]interface{}" -> JArray([i \in 1..Len(v.a) |-> JSONDecoded(v.a[i])])
      [] v.j = "map[string]string" -> JObject([k \in DOMAIN v.m |-> JString(v.m[k])])
      [] v.j = "map[string]interface{}" -> JObject([k \in DOMAIN v.m |-> JSONDecoded(v.m[k])])
      [] OTHER -> v

\* m[key], nil when the key is absent; v.(string) with "" on failure.
Field(m, key) == IF key \in DOMAIN m THEN m[key] ELSE JNull
Str(v)        == IF v.j = "string" THEN v.s ELSE <<>>
IsStr(v)      == v.j = "string"
IsArr(v)      == v.j = "[]interface{}"
IsObj(v)      == v.j = "map[string]interface{}"

\* The string elements of an array, in order (others are left out).
Strings(a) ==
    LET idx == SelectSeq([i \in 1..Len(a) |-> i], LAMBDA i : IsStr(a[i]))
    IN  [n \in 1..Len(idx) |-> a[idx[n]].s]

\* The params loop of parseMacroBlock and parseCell: string values only.
paramsOf(v) ==
    IF IsObj(v)
    THEN LET ks == {k \in DOMAIN v.m : IsStr(v.m[k])} IN [k \in ks |-> v.m[k].s]
    ELSE NoParams

\* func parseCell
parseCell(raw) ==
    CASE IsStr(raw) -> Cell(raw.s, NilMacro)
      [] IsObj(raw) ->
           IF IsStr(Field(raw.m, K("text")))
           THEN Cell(Field(raw.m, K("text")).s, NilMacro)
           ELSE IF IsObj(Field(raw.m, K("macro")))
           THEN LET macroRaw == Field(raw.m, K("macro")).m
                IN  Cell(<<>>, <<MacroV(Str(Field(macroRaw, K("name"))),
                                       paramsOf(Field(macroRaw, K("params"))), <<>>)>>)
           ELSE Cell(<<>>, NilMacro)
      [] OTHER -> Cell(<<>>, NilMacro)

\* func parseTableBlock
parseTableBlock(m) ==
    LET headers == Field(m, K("headers"))
        rows    == Field(m, K("rows"))
    IN  Table(IF IsArr(headers) THEN Strings(headers.a) ELSE <<>>,
              IF IsArr(rows)
              THEN [i \in 1..Len(rows.a) |->
                      Row(IF IsArr(rows.a[i])
                          THEN [n \in 1..Len(rows.a[i].a) |-> parseCell(rows.a[i].a[n])]
                          ELSE <<>>)]
              ELSE <<>>)

\* The items loop of parseBulletListBlock and parseNumberedListBlock.
itemsOf(m) ==
    LET items == Field(m, K("items"))
    IN  IF IsArr(items)
        THEN LET ss == Strings(items.a) IN [i \in 1..Len(ss) |-> ListItem(ss[i])]
        ELSE <<>>

\* func parseMacroBlock
parseMacroBlock(m) ==
    Macro(Str(Field(m, K("name"))), paramsOf(Field(m, K("params"))), Str(Field(m, K("body"))))

\* func parseBlock: the block, or an error.
parseBlock(raw) ==
    IF ~IsObj(raw) THEN [val |-> NilBlock, err |-> TRUE]
    ELSE LET m == raw.m
             blockType == Str(Field(m, K("type")))
             ok(b) == [val |-> b, err |-> FALSE]
         IN  CASE blockType = K("table")     -> ok(parseTableBlock(m))
               [] blockType = K("paragraph") -> ok(Paragraph(Str(Field(m, K("text")))))
               [] blockType = K("heading")   ->
                      ok(Heading(IF Field(m, K("level")).j = "float64"
                                 THEN Field(m, K("level")).n ELSE 1,
                                 Str(Field(m, K("text")))))
               [] blockType = K("bullet_list")   -> ok(BulletList(itemsOf(m)))
               [] blockType = K("numbered_list") -> ok(NumberedList(itemsOf(m)))
               [] blockType = K("macro")         -> ok(parseMacroBlock(m))
               [] blockType = K("code_block")    ->
                      ok(CodeBlock(Str(Field(m, K("language"))), Str(Field(m, K("code")))))
               [] blockType = K("horizontal_rule") -> ok(HorizontalRule)
               [] OTHER -> [val |-> NilBlock, err |-> TRUE]

(***************************************************************************)
(* The library calls Render, Validate and Parse applied to IR pages.       *)
(* page is the caller's Page, xhtml the string the first Render returned   *)
(* and res the result of the latest call.                                  *)
(***************************************************************************)
Res(op, err, e, pg, out) ==
    [op |-> op, err |-> err, verr |-> e, page |-> pg, out |-> out, info |-> 0]
NoRes == Res("none", FALSE, NoErr, Page(<<>>), <<>>)

MaxBlocks == 2   \* blocks of a page built from PairBlocks

Key(w) == <<w>>
\* The orders in which one range over a Params map can visit its keys.
Orders == {<<Key("language"), Key("colour"), Key("title")>>,
           <<Key("language"), Key("title"), Key("colour")>>}

SampleTexts  == {<<>>, <<"1">>, <<"1", " ", "2">>, <<" ", "1">>,
                 <<"<", "&", ">">>}
SampleParams == {NoParams, Key("colour") :> <<"1">>,
                 (Key("colour") :> <<"1">>) @@ (Key("title") :> <<"<">>)}
SampleBodies == {<<>>, <<"1">>, <<STag("b"), "1", ETag("b")>>,
                 <<STag("div"), "1", ETag("div")>>, <<STag("b")>>}
SampleCodes  == {<<>>, <<"1">>, <<"1", "<", "&">>, <<CDataClose>>,
                 <<"1", CDataClose, STag("div"), ETag("div"), CDataOpen>>}
SampleMacros == {MacroV(n, ps, b) :
                   n \in {<<>>, <<"status">>}, ps \in SampleParams, b \in SampleBodies}
SampleCells  == {Cell(t, NilMacro) : t \in {<<>>, <<"1">>, <<" ", "1">>}}
                  \cup {Cell(<<>>, <<MacroV(<<"status">>, ps, <<>>)>>) : ps \in SampleParams}
                  \cup {Cell(<<"1">>, <<MacroV(<<"status">>, NoParams, <<"1">>)>>)}
SampleItems  == {<<>>} \cup {<<ListItem(t)>> : t \in SampleTexts}
                  \cup {<<ListItem(<<"1">>), ListItem(<<"2">>)>>}
SampleTables == {Table(h, r) :
                   h \in {<<>>, <<<<"1">>>>, <<<<"1">>, <<" ", "2">>>>},
                   r \in {<<>>} \cup {<<Row(<<c>>)>> : c \in SampleCells}
                           \cup {<<Row(<<>>), Row(<<Cell(<<"1">>, NilMacro), Cell(<<"2">>, NilMacro)>>)>>}}
SampleBlocks ==
    {Heading(l, t) : l \in {0, 1, 6, 7}, t \in {<<"1">>, <<" ", "1">>}}
      \cup {Paragraph(t) : t \in SampleTexts}
      \cup {BulletList(it) : it \in SampleItems}
      \cup {NumberedList(it) : it \in SampleItems}
      \cup SampleTables
      \cup {Macro(m.Name, m.Params, m.Body) : m \in SampleMacros}
      \cup {CodeBlock(l, c) : l \in {<<>>, <<"go">>}, c \in SampleCodes}
      \cup {HorizontalRule, [type |-> "unknown"]}
PairBlocks ==
    {Heading(1, <<"1">>), Heading(7, <<"1">>), Paragraph(<<"1">>), HorizontalRule,
     CodeBlock(<<"go">>, <<"1">>), Macro(<<"status">>, NoParams, <<STag("div"), "1", ETag("div")>>),
     Table(<<<<"1">>>>, <<Row(<<Cell(<<"2">>, NilMacro)>>)>>)}
Pages == {Page(<<b>>) : b \in SampleBlocks} \cup {Page(bs) : bs \in SeqsUpTo(PairBlocks, MaxBlocks)}

(***************************************************************************)
(* ValidateWithOptions as a state machine: one step per decoder.Token()    *)
(* call.  The decoder is the environment: it returns any token a Strict    *)
(* decoder can return next on some input wrapped in <root>...</root>       *)
(* (an end-tag only for the innermost open element, io.EOF only after the  *)
(* closing </root>), or a syntax error at any point.                       *)
(***************************************************************************)
MaxDepth == 3   \* open elements below <root> that the inputs nest

StreamNames == {"table", "tbody", "tr", "td", "div", "ac:div", "ac:structured-macro"}

\* The attribute lists of the macro start-tags: none, ac:name alone, and
\* ac:name followed by ri:name (two attributes whose local name is "name").
MacroAttrs == {NoAttr,
               <<Attr("name", <<>>)>>,
               <<Attr("name", <<"status">>)>>,
               <<Attr("name", <<"danger">>)>>,
               <<Attr("name", <<"status">>), Attr("name", <<"danger">>)>>,
               <<Attr("name", <<"danger">>), Attr("name", <<"status">>)>>}

StartTokens ==
    {StartTok(Local(q), NoAttr) : q \in StreamNames \ {"ac:structured-macro"}}
        \cup {StartTok("structured-macro", a) : a \in MacroAttrs}

\* The qualified name a start token of the stream was spelled with.
QName(t, q) == q \in StreamNames /\ Local(q) = t.name

OptionSets ==
    [RequireTableTbody : BOOLEAN,
     AllowedMacros     : {{}, {<<"status">>, <<"info">>}},
     ForbiddenTags     : {ForbiddenTags, {"tr", "structured-macro"}}]

ValInit ==
    /\ opts = DefaultValidatorOptions
    /\ open = <<>>
    /\ tok = NoTok
    /\ tableDepth = 0
    /\ tbodyFound = FALSE
    /\ verr = NoErr
    /\ vpc = "idle"
    /\ frames = <<>>
    /\ AllowedMacros = {}

\* ValidateWithOptions(xhtml, o) is called with a non-empty xhtml.
ValidateBegin(o) ==
    /\ vpc # "running"
    /\ opts' = o
    /\ open' = <<>>
    /\ tok' = NoTok
    /\ tableDepth' = 0
    /\ tbodyFound' = FALSE
    /\ verr' = NoErr
    /\ vpc' = "running"
    /\ frames' = <<>>
    /\ UNCHANGED <<AllowedMacros, callVars, clientVars, ioVars>>

\* ValidateWithOptions("", o): returns nil without creating a decoder.
ValidateEmpty(o) ==
    /\ vpc # "running"
    /\ opts' = o
    /\ open' = <<>>
    /\ tok' = NoTok
    /\ tableDepth' = 0
    /\ tbodyFound' = FALSE
    /\ verr' = NoErr
    /\ vpc' = "done"
    /\ frames' = <<>>
    /\ UNCHANGED <<AllowedMacros, callVars, clientVars, ioVars>>

\* History: the per-table "tbody seen" flags, kept as a stack.
FramesAfter(fr, t) ==
    CASE t.k = "start" /\ t.name = "table" -> Append(fr, FALSE)
      [] t.k = "start" /\ t.name = "tbody" /\ fr # <<>> -> Append(Front(fr), TRUE)
      [] t.k = "end" /\ t.name = "table" /\ fr # <<>> -> Front(fr)
      [] OTHER -> fr

\* The loop body on token t, the decoder's stack becoming st.
Consume(t, st) ==
    LET r == ValidateToken(opts, tableDepth, tbodyFound, t)
    IN  /\ tok' = t
        /\ open' = st
        /\ tableDepth' = r.tableDepth
        /\ tbodyFound' = r.tbodyFound
        /\ verr' = r.err
        /\ vpc' = IF r.err # NoErr THEN "done" ELSE "running"
        /\ frames' = IF r.err # NoErr THEN frames ELSE FramesAfter(frames, t)
        /\ UNCHANGED <<opts, AllowedMacros, callVars, clientVars, ioVars>>

\* The first token is the wrapper's start-tag.
StepRoot ==
    /\ vpc = "running" /\ tok = NoTok
    /\ Consume(StartTok("root", NoAttr), <<"root">>)

StepStart ==
    /\ vpc = "running" /\ open # <<>> /\ Len(open) <= MaxDepth
    /\ \E t \in StartTokens : \E q \in StreamNames :
          QName(t, q) /\ Consume(t, Append(open, q))

StepEnd ==
    /\ vpc = "running" /\ open # <<>>
    /\ Consume(EndTok(Local(Last(open))), Front(open))

StepText ==
    /\ vpc = "running" /\ open # <<>> /\ tok.k # "text"
    /\ Consume(TextTok(<<"1">>), open)

\* decoder.Token() returns a syntax error.
StepError ==
    /\ vpc = "running" /\ tok # NoTok
    /\ Consume(ErrTok, open)

\* decoder.Token() returns io.EOF: break, return nil.
StepEOF ==
    /\ vpc = "running" /\ open = <<>> /\ tok = EndTok("root")
    /\ vpc' = "done"
    /\ UNCHANGED <<opts, open, tok, tableDepth, tbodyFound, verr, frames, AllowedMacros,
                   callVars, clientVars, ioVars>>

CallIdle == page = Page(<<>>) /\ xhtml = <<>> /\ res = NoRes /\ json = NoJSON
ClientIdle == log = <<>> /\ ret = "none" /\ version = 1

\* No goroutine runs a call, no tool is being handled, no input or output.
NoCalls == <<>>
\* A HandleTool call: result is "nil" or "ToolResult" (then IsError and the
\* text of its content), err the Go error ("" for nil).
ToolCall(name, state, result, isError, text, err) ==
    [name |-> name, state |-> state, result |-> result, IsError |-> isError,
     text |-> text, err |-> err]
NoTool  == ToolCall("", "none", "nil", FALSE, "", "")
IoIdle == calls = NoCalls /\ tool = NoTool /\ stdin = <<>> /\ stdout = <<>>

Init == ValInit /\ CallIdle /\ ClientIdle /\ IoIdle

Next ==
    \/ \E o \in OptionSets : ValidateBegin(o)
    \/ \E o \in OptionSets : ValidateEmpty(o)
    \/ StepRoot
    \/ StepStart
    \/ StepEnd
    \/ StepText
    \/ StepError
    \/ StepEOF

Spec == Init /\ [][Next]_vars

(***************************************************************************)
(* The library calls on a page drawn from Pages.                           *)
(***************************************************************************)
InitPipeline ==
    /\ ValInit /\ ClientIdle /\ IoIdle
    /\ page \in Pages
    /\ xhtml = <<>>
    /\ res = NoRes
    /\ json = NoJSON

\* xhtml, err := storage.Render(page)
CallRender ==
    /\ res.op = "none"
    /\ \E ord \in Orders :
         \E r \in {Render(page, [i \in 1..Len(page.Blocks) |-> ord])} :
             /\ xhtml' = r.out
             /\ res' = Res("Render", r.err, NoErr, Page(<<>>), r.out)
    /\ UNCHANGED <<json, page, valVars, clientVars, ioVars>>

\* err := storage.Validate(xhtml) on the string Render returned
CallValidate ==
    /\ res.op = "Render" /\ ~res.err
    /\ \E e \in {Validate(xhtml)} :
           res' = Res("Validate", e # NoErr, e, Page(<<>>), <<>>)
    /\ UNCHANGED <<json, page, xhtml, valVars, clientVars, ioVars>>

\* parsed, err := storage.Parse(xhtml) on the string Render returned
CallParse ==
    /\ res.op \in {"Render", "Validate"} /\ ~res.err
    /\ \E r \in {Parse(xhtml)} :
           res' = Res("Parse", r.err, NoErr, r.page, <<>>)
    /\ UNCHANGED <<json, page, xhtml, valVars, clientVars, ioVars>>

\* xhtml2, err := storage.Render(parsed)
\* The caller appends a row of text cells to a table of the parsed page:
\* table.Rows = append(table.Rows, Row{Cells: []Cell{{Text: t}}})
CallAppendRow ==
    /\ res.op = "Parse" /\ ~res.err
    /\ \E i \in 1..Len(res.page.Blocks), t \in {<<"1">>, <<"<", "&", ">">>} :
         /\ res.page.Blocks[i].type = "table"
         /\ res' = [res EXCEPT !.op = "AppendRow",
                               !.page.Blocks[i].Rows = Append(@, Row(<<Cell(t, NilMacro)>>))]
    /\ UNCHANGED <<json, page, xhtml, valVars, clientVars, ioVars>>

CallRenderParsed ==
    /\ res.op \in {"Parse", "AppendRow"} /\ ~res.err
    /\ \E ord \in Orders :
         \E r \in {Render(res.page, [i \in 1..Len(res.page.Blocks) |-> ord])} :
             res' = Res("RenderParsed", r.err, NoErr, res.page, r.out)
    /\ UNCHANGED <<json, page, xhtml, valVars, clientVars, ioVars>>

\* err := storage.Validate(xhtml2) on the string the second Render returned
CallValidateParsed ==
    /\ res.op = "RenderParsed" /\ ~res.err
    /\ \E e \in {Validate(res.out)} :
           res' = Res("ValidateParsed", e # NoErr, e, res.page, res.out)
    /\ UNCHANGED <<json, page, xhtml, valVars, clientVars, ioVars>>

\* s2, err := storage.Render(page): a second call on the same page
CallRenderAgain ==
    /\ res.op = "Render" /\ ~res.err
    /\ \E ord \in Orders :
         \E r \in {Render(page, [i \in 1..Len(page.Blocks) |-> ord])} :
             res' = Res("RenderAgain", r.err, NoErr, Page(<<>>), r.out)
    /\ UNCHANGED <<json, page, xhtml, valVars, clientVars, ioVars>>

NextPipeline ==
    \/ CallRender
    \/ CallValidate
    \/ CallParse
    \/ CallAppendRow
    \/ CallRenderParsed
    \/ CallValidateParsed
    \/ CallRenderAgain

SpecPipeline == InitPipeline /\ [][NextPipeline]_vars

(***************************************************************************)
(* Parse applied to table markup written by hand: rows directly under      *)
(* <table> or under <tbody>, several header rows, cells holding text,      *)
(* nested elements and macros.                                             *)
(***************************************************************************)
MaxRows == 2   \* rows of a table in ParseInputs

\* A cell as written: its tag, its content and the text the content carries.
CellIn(tag, content, text) == [tag |-> tag, content |-> content, text |-> text]
StatusMacro == <<AttrOpen("ac:structured-macro"), "status", AttrClose,
                 ETag("ac:structured-macro")>>
SampleRowsIn ==
    { <<>>,
      <<CellIn("th", <<"1">>, <<"1">>)>>,
      <<CellIn("th", <<"2">>, <<"2">>)>>,
      <<CellIn("th", <<"1">>, <<"1">>), CellIn("td", <<" ", "2">>, <<"2">>)>>,
      <<CellIn("td", <<"1">>, <<"1">>)>>,
      <<CellIn("td", StatusMacro, <<>>)>>,
      <<CellIn("td", <<"1">> \o StatusMacro, <<"1">>)>>,
      <<CellIn("td", <<"1">>, <<"1">>),
        CellIn("td", <<STag("b"), "2", ETag("b")>> \o StatusMacro, <<"2">>)>> }
Layouts == {"tbody", "table", "mixed"}

CellMarkup(c) == <<STag(c.tag)>> \o c.content \o <<ETag(c.tag)>>
RowMarkup(r)  == <<"<tr>">> \o Concat([i \in 1..Len(r) |-> CellMarkup(r[i])]) \o <<"</tr>">>
RowsMarkup(rs) == Concat([i \in 1..Len(rs) |-> RowMarkup(rs[i])])
TableMarkup(rs, layout) ==
    <<"<table>">>
      \o (CASE layout = "tbody" -> <<"<tbody>">> \o RowsMarkup(rs) \o <<"</tbody>">>
            [] layout = "table" -> RowsMarkup(rs)
            [] OTHER -> RowsMarkup(SubSeq(rs, 1, 1))
                          \o <<"<tbody>">> \o RowsMarkup(SubSeq(rs, 2, Len(rs))) \o <<"</tbody>">>)
      \o <<"</table>">>
RowSeqs == SeqsUpTo(SampleRowsIn, MaxRows) \ {<<>>}
ParseInputs == {TableMarkup(rs, l) : rs \in RowSeqs, l \in Layouts}

InitParse ==
    /\ ValInit /\ ClientIdle /\ IoIdle
    /\ page = Page(<<>>)
    /\ xhtml \in ParseInputs
    /\ res = NoRes
    /\ json = NoJSON

\* page, err := storage.Parse(xhtml)
CallParseInput ==
    /\ res.op = "none"
    /\ \E r \in {Parse(xhtml)} :
           res' = Res("Parse", r.err, NoErr, r.page, <<>>)
    /\ UNCHANGED <<json, page, xhtml, valVars, clientVars, ioVars>>

NextParse == CallParseInput

SpecParse == InitParse /\ [][NextParse]_vars

(***************************************************************************)
(* Parse on documents with unknown elements and on damaged documents.      *)
(***************************************************************************)
\* One block of every kind Parse descends into, and an unknown element.
Doc ==
    <<"<p>", "1", "</p>",
      "<table>", "<tbody>", "<tr>", "<td>",
      AttrOpen("ac:structured-macro"), "status", AttrClose,
      AttrOpen("ac:parameter"), "colour", AttrClose, "1", ETag("ac:parameter"),
      ETag("ac:structured-macro"),
      "</td>", "</tr>", "</tbody>", "</table>",
      "<ul>", "<li>", "1", "</li>", "</ul>",
      "<x>", "<b>", "1", "</b>", "</x>">>
\* Doc cut after n atoms; Doc with atom a put in after n atoms.
Truncate(d, n)  == SubSeq(d, 1, n)
Insert(d, n, a) == SubSeq(d, 1, n) \o <<a>> \o SubSeq(d, n + 1, Len(d))
BadAtoms == {"&", ETag("span")}
Damaged ==
    {Truncate(Doc, n) : n \in 1..Len(Doc) - 1}
      \cup {Insert(Doc, n, a) : n \in 0..Len(Doc), a \in BadAtoms}

\* Where an unknown element can stand, and the markup around it.
Contexts == {"top", "table", "tbody", "row", "list"}
Build(ctx, u) ==
    CASE ctx = "top"   -> <<"<p>", "1", "</p>">> \o u \o <<"<p>", "1", "</p>">>
      [] ctx = "table" -> <<"<table>">> \o u \o <<"<tr>", "<td>", "1", "</td>", "</tr>", "</table>">>
      [] ctx = "tbody" -> <<"<table>", "<tbody>">> \o u
                            \o <<"<tr>", "<td>", "1", "</td>", "</tr>", "</tbody>", "</table>">>
      [] ctx = "row"   -> <<"<table>", "<tbody>", "<tr>">> \o u
                            \o <<"<td>", "1", "</td>", "</tr>", "</tbody>", "</table>">>
      [] OTHER         -> <<"<ul>">> \o u \o <<"<li>", "1", "</li>", "</ul>">>
\* What an unknown element may hold: tags the surrounding parser would
\* recognise, carrying the text 2.
Recognised ==
    {<<"<p>", "2", "</p>">>, <<"<h1>", "2", "</h1>">>,
     <<"<table>", "<tr>", "<td>", "2", "</td>", "</tr>", "</table>">>,
     <<"<tr>", "<td>", "2", "</td>", "</tr>">>, <<"<td>", "2", "</td>">>,
     <<"<li>", "2", "</li>">>, <<"2">>, <<>>}
UnknownNames == {"x", "div"}
\* <n> inner </n>, <n> <n> inner </n> inner </n> and <n> <n/> inner </n>
Unknowns ==
    UNION {{ <<STag(n)>> \o c \o <<ETag(n)>>,
             <<STag(n), STag(n)>> \o c \o <<ETag(n)>> \o c \o <<ETag(n)>>,
             <<STag(n), SelfTag(n)>> \o c \o <<ETag(n)>> } : n \in UnknownNames, c \in Recognised}
WithUnknown == {Build(ctx, u) : ctx \in Contexts, u \in Unknowns \cup {<<>>}}

\* Containers of text, nested elements with the character data they hold
\* at any depth, and a container holding one or two of them.
Containers == {"td", "th", "p", "h1", "li"}
Kid(markup, text) == [markup |-> markup, text |-> text]
Kids ==
    {Kid(<<"<b>", "1", "</b>">>, <<"1">>),
     Kid(<<"<b>", "<x>", "2", "</x>", "</b>">>, <<"2">>),
     Kid(<<"<b>", "1", "<x>", "2", "</x>", "</b>">>, <<"1", "2">>),
     Kid(<<"<b>", "1", " ", "</b>">>, <<"1", " ">>),
     Kid(<<"<b>", " ", "2", "</b>">>, <<" ", "2">>)}
KidSeqs == {<<k>> : k \in Kids} \cup {<<k1, k2>> : k1 \in Kids, k2 \in Kids}
KidsMarkup(ks) == Concat([i \in 1..Len(ks) |-> ks[i].markup])
Wrap(c, inner) ==
    CASE c \in {"td", "th"} ->
           <<"<table>", "<tbody>", "<tr>", STag(c)>> \o inner
              \o <<ETag(c), "</tr>", "</tbody>", "</table>">>
      [] c = "li" -> <<"<ul>", "<li>">> \o inner \o <<"</li>", "</ul>">>
      [] OTHER -> <<STag(c)>> \o inner \o <<ETag(c)>>
NestedInputs == {Wrap(c, KidsMarkup(ks)) : c \in Containers, ks \in KidSeqs}

\* Children of a structured-macro: what each is (a parameter with its key,
\* a body, anything else) and the text it holds.
Child(markup, kind, key, text) == [markup |-> markup, kind |-> kind, key |-> key, text |-> text]
Param(k, v) == <<AttrOpen("ac:parameter")>> \o k \o <<AttrClose>> \o v \o <<ETag("ac:parameter")>>
Children ==
    {Child(Param(<<"colour">>, <<"1">>), "param", <<"colour">>, <<"1">>),
     Child(Param(<<"colour">>, <<"2">>), "param", <<"colour">>, <<"2">>),
     Child(Param(<<"title">>, <<"2">>), "param", <<"title">>, <<"2">>),
     Child(Param(<<>>, <<"2">>), "param", <<>>, <<"2">>),
     Child(<<STag("ac:parameter"), "2", ETag("ac:parameter")>>, "param", <<>>, <<"2">>),
     Child(<<STag("ac:rich-text-body"), "1", ETag("ac:rich-text-body")>>, "body", <<>>, <<"1">>),
     Child(<<STag("ac:rich-text-body"), "<p>", "1", "</p>", ETag("ac:rich-text-body")>>,
           "body", <<>>, <<"1">>),
     Child(<<STag("ac:plain-text-body"), CDataOpen, "1", "<", CDataClose,
             ETag("ac:plain-text-body")>>, "body", <<>>, <<"1", "<">>),
     Child(<<"<x>">> \o Param(<<"title">>, <<"1">>) \o <<"</x>">>, "other", <<>>, <<>>)}
ChildSeqs == {<<>>} \cup {<<c>> : c \in Children}
                \cup {<<c1, c2>> : c1 \in Children, c2 \in Children}
MacroWith(cs) ==
    <<AttrOpen("ac:structured-macro"), "status", AttrClose>>
        \o Concat([i \in 1..Len(cs) |-> cs[i].markup]) \o <<ETag("ac:structured-macro")>>
MacroInputs == {MacroWith(cs) : cs \in ChildSeqs}

InitDocs ==
    /\ ValInit /\ ClientIdle /\ IoIdle
    /\ page = Page(<<>>)
    /\ xhtml \in Damaged \cup WithUnknown \cup {Doc} \cup NestedInputs
                  \cup MacroInputs
    /\ res = NoRes
    /\ json = NoJSON

SpecDocs == InitDocs /\ [][NextParse]_vars

(***************************************************************************)
(* Parse, then Render on the page Parse returned: documents with every     *)
(* heading element h1..h7, alone, inside an unknown element and next to    *)
(* other blocks.                                                           *)
(***************************************************************************)
HeadingNames == {"h1", "h2", "h3", "h4", "h5", "h6", "h7"}
HeadingMarkup(n, t) == <<STag(n)>> \o t \o <<ETag(n)>>
HeadingTexts == {<<>>, <<"1">>, <<"<b>", "1", "</b>", "2">>}
HeadingInputs ==
    UNION {{ HeadingMarkup(n, t),
             <<"<p>", "1", "</p>">> \o HeadingMarkup(n, t) \o <<"<hr/>">>,
             <<"<x>">> \o HeadingMarkup(n, t) \o <<"</x>">>,
             HeadingMarkup(n, t) \o HeadingMarkup("h6", t) } :
           n \in HeadingNames, t \in HeadingTexts}

InitParseRender ==
    /\ ValInit /\ ClientIdle /\ IoIdle
    /\ page = Page(<<>>)
    /\ xhtml \in HeadingInputs \cup {Doc} \cup MacroInputs
    /\ res = NoRes
    /\ json = NoJSON

NextParseRender ==
    \/ CallParseInput
    \/ CallRenderParsed

SpecParseRender == InitParseRender /\ [][NextParseRender]_vars

(***************************************************************************)
(* A block sent through blockToJSON, the JSON encoding and parseBlock.     *)
(* page holds the one block converted.                                     *)
(***************************************************************************)
BodyCells == {Cell(<<>>, <<MacroV(<<"status">>, ps, b)>>) :
                 ps \in SampleParams, b \in {<<"1">>, <<STag("b"), "1", ETag("b")>>}}
ConvertBlocks ==
    (SampleBlocks \ {[type |-> "unknown"]})
      \cup {Table(<<<<"1">>>>, <<Row(<<c>>)>>) : c \in BodyCells}

InitConvert ==
    /\ ValInit /\ ClientIdle /\ IoIdle
    /\ page \in {Page(<<b>>) : b \in ConvertBlocks}
    /\ xhtml = <<>>
    /\ res = NoRes
    /\ json = NoJSON

\* blockToJSON(block)
CallBlockToJSON ==
    /\ res.op = "none"
    /\ json' = blockToJSON(page.Blocks[1])
    /\ res' = Res("blockToJSON", FALSE, NoErr, Page(<<>>), <<>>)
    /\ UNCHANGED <<page, xhtml, valVars, clientVars, ioVars>>

\* The value is written as JSON text and read back by the peer.
EncodeDecode ==
    /\ res.op = "blockToJSON"
    /\ json' = JSONDecoded(json)
    /\ res' = Res("decoded", FALSE, NoErr, Page(<<>>), <<>>)
    /\ UNCHANGED <<page, xhtml, valVars, clientVars, ioVars>>

\* block, err := parseBlock(raw)
CallParseBlock ==
    /\ res.op = "decoded"
    /\ \E r \in {parseBlock(json)} :
           res' = Res("parseBlock", r.err, NoErr,
                      IF r.err THEN Page(<<>>) ELSE Page(<<r.val>>), <<>>)
    /\ UNCHANGED <<page, xhtml, json, valVars, clientVars, ioVars>>

NextConvert == CallBlockToJSON \/ EncodeDecode \/ CallParseBlock

SpecConvert == InitConvert /\ [][NextConvert]_vars

(***************************************************************************)
(* The package-level AllowedMacros map: callers add names to it and call   *)
(* Validate, which takes its options from DefaultValidatorOptions().       *)
(***************************************************************************)
MacroNames == {<<"status">>, <<"info">>, <<"danger">>}
MacroMarkup(n) == <<AttrOpen("ac:structured-macro")>> \o n \o
                  <<AttrClose, ETag("ac:structured-macro")>>
GlobalInputs ==
    {<<"<p>", "1", "</p>">>}
      \cup {MacroMarkup(n) : n \in MacroNames \cup {<<"code">>}}
      \cup {<<"<p>">> \o MacroMarkup(n) \o <<"</p>">> : n \in MacroNames \cup {<<"code">>}}
      \cup {<<"<table>", "<tbody>", "<tr>", "<td>">> \o MacroMarkup(n)
              \o <<"</td>", "</tr>", "</tbody>", "</table>">> : n \in MacroNames \cup {<<"code">>}}

InitGlobal == ValInit /\ CallIdle /\ ClientIdle /\ IoIdle

\* storage.AllowedMacros[name] = true
SetAllowedMacro ==
    /\ \E n \in MacroNames \ AllowedMacros : AllowedMacros' = AllowedMacros \cup {n}
    /\ UNCHANGED <<opts, open, tok, tableDepth, tbodyFound, verr, vpc, frames,
                   callVars, clientVars, ioVars>>

\* err := storage.Validate(x)
CallValidateDefault ==
    /\ \E x \in GlobalInputs :
         /\ xhtml' = x
         /\ \E e \in {Validate(x)} : res' = Res("Validate", e # NoErr, e, Page(<<>>), <<>>)
    /\ UNCHANGED <<json, page, valVars, clientVars, ioVars>>

NextGlobal == SetAllowedMacro \/ CallValidateDefault

SpecGlobal == InitGlobal /\ [][NextGlobal]_vars

(***************************************************************************)
(* RenderBlock and ValidateBlock on one block, Render on an absent page.   *)
(* page holds the argument: a block, NilBlock, a nil pointer or NilPage.   *)
(***************************************************************************)
MaxLevel == 7   \* heading levels run from -1 to MaxLevel

VariantTypes == {"table", "paragraph", "heading", "macro", "bullet_list",
                 "numbered_list", "code_block", "horizontal_rule"}
BlockArgs ==
    SampleBlocks
      \cup {Heading(l, t) : l \in -1..MaxLevel, t \in {<<>>, <<"1">>, <<"<", "&", ">">>}}
      \cup {NilPtr(ty) : ty \in VariantTypes}
      \cup {NilBlock}

\* func ValidateBlock: the error of RenderBlock, or of Validate on its
\* output.  err without a ValidationError is the render error.
ValidateBlock(b, ord) ==
    With(RenderBlock(b, ord), LAMBDA r :
        IF r.err THEN Res("ValidateBlock", TRUE, NoErr, Page(<<>>), <<>>)
        ELSE With(Validate(r.out), LAMBDA e :
                 Res("ValidateBlock", e # NoErr, e, Page(<<>>), <<>>)))

InitBlock ==
    /\ ValInit /\ ClientIdle /\ IoIdle
    /\ page \in BlockArgs \cup {NilPage}
    /\ xhtml = <<>>
    /\ res = NoRes
    /\ json = NoJSON

\* s, err := storage.RenderBlock(block)
CallRenderBlock ==
    /\ page # NilPage
    /\ \E ord \in Orders :
         \E r \in {RenderBlock(page, ord)} :
             /\ xhtml' = r.out
             /\ res' = Res("RenderBlock", r.err, NoErr, Page(<<>>), r.out)
    /\ UNCHANGED <<json, page, valVars, clientVars, ioVars>>

\* err := storage.ValidateBlock(block)
CallValidateBlock ==
    /\ page # NilPage
    /\ \E ord \in Orders : res' = ValidateBlock(page, ord)
    /\ UNCHANGED <<json, page, xhtml, valVars, clientVars, ioVars>>

\* s, err := storage.Render(nil)
CallRenderNilPage ==
    /\ page = NilPage
    /\ \E r \in {Render(page, <<>>)} :
           /\ xhtml' = r.out
           /\ res' = Res("Render", r.err, NoErr, Page(<<>>), r.out)
    /\ UNCHANGED <<json, page, valVars, clientVars, ioVars>>

NextBlock == CallRenderBlock \/ CallValidateBlock \/ CallRenderNilPage

SpecBlock == InitBlock /\ [][NextBlock]_vars

(***************************************************************************)
(* The client (confluence/client.go) and the tool handlers built on it     *)
(* (mcpserver/server.go).  log is the sequence of storage.Validate calls   *)
(* and HTTP requests of the latest call, ret what the call returned,       *)
(* version the version number the platform holds for the page.  A handler  *)
(* that reads the current version first is "pending" between its GET and   *)
(* its update; other editors may change the page meanwhile.                *)
(***************************************************************************)
MaxVersion == 3   \* version numbers the page goes through

ClientPages ==
    {Page(<<>>), Page(<<Paragraph(<<"1">>)>>), Page(<<Heading(7, <<"1">>)>>),
     Page(<<Macro(<<"status">>, NoParams, <<STag("div"), ETag("div")>>)>>),
     Page(<<CodeBlock(<<>>, <<CDataClose>>)>>),
     Page(<<Table(<<<<"1">>>>, <<>>), [type |-> "unknown"]>>)}
ClientXhtml ==
    {<<>>, <<"<p>", "1", "</p>">>, <<"<div>", "</div>">>, <<"<p>">>,
     <<"<table>", "<tr>", "</tr>", "</table>">>}
Ids    == {"", "123"}
Titles == {"", "T"}

Ev(kind, body, n, ok) == [ev |-> kind, body |-> body, number |-> n, ok |-> ok]
ValidateEv(x) == Ev("Validate", x, 0, Validate(x) = NoErr)
Pending(op, v) == [Res(op, FALSE, NoErr, Page(<<>>), <<>>) EXCEPT !.info = v]
Called(op) == Res(op, FALSE, NoErr, Page(<<>>), <<>>)

\* func (c *Client) UpdatePageStorageRaw, after lg: Validate, then the PUT
\* carrying xhtml and version+1; the platform applies it only on top of the
\* version it holds, and may answer any request with an error status.
UpdatePageStorageRawUnchecked(lg, x, v) ==
    \E applied \in BOOLEAN :
        /\ applied => (v = version /\ version < MaxVersion)
        /\ log' = lg \o <<Ev("PUT", x, v + 1, applied)>>
        /\ ret' = IF applied THEN "ok" ELSE "api error"
        /\ version' = IF applied THEN v + 1 ELSE version

UpdatePageStorageRaw(lg, x, v) ==
    IF Validate(x) # NoErr
    THEN /\ log' = lg \o <<ValidateEv(x)>>
         /\ ret' = "validation error"
         /\ version' = version
    ELSE \E applied \in BOOLEAN :
            /\ applied => (v = version /\ version < MaxVersion)
            /\ log' = lg \o <<ValidateEv(x), Ev("PUT", x, v + 1, applied)>>
            /\ ret' = IF applied THEN "ok" ELSE "api error"
            /\ version' = IF applied THEN v + 1 ELSE version

\* func (c *Client) UpdatePageStorage: Render, Validate, UpdatePageStorageRaw.
UpdatePageStorage(lg, pg, v) ==
    \E ord \in Orders :
        \E r \in {Render(pg, [i \in 1..Len(pg.Blocks) |-> ord])} :
            /\ xhtml' = r.out
            /\ IF r.err
               THEN log' = lg /\ ret' = "render error" /\ version' = version
               ELSE IF Validate(r.out) # NoErr
               THEN /\ log' = lg \o <<ValidateEv(r.out)>>
                    /\ ret' = "validation error"
                    /\ version' = version
               ELSE UpdatePageStorageRaw(lg \o <<ValidateEv(r.out)>>, r.out, v)

\* func (c *Client) CreatePageRaw: Validate, then the POST carrying xhtml;
\* the answer is an id, an error status or a body that does not decode.
CreatePageRaw(lg, x) ==
    IF Validate(x) # NoErr
    THEN /\ log' = lg \o <<ValidateEv(x)>>
         /\ ret' = "validation error"
    ELSE \E answer \in {"ok", "api error", "json decode error"} :
            /\ log' = lg \o <<ValidateEv(x), Ev("POST", x, 1, answer # "api error")>>
            /\ ret' = answer

\* func (c *Client) CreatePage: Render, Validate, CreatePageRaw.
CreatePage(lg, pg) ==
    \E ord \in Orders :
        \E r \in {Render(pg, [i \in 1..Len(pg.Blocks) |-> ord])} :
            /\ xhtml' = r.out
            /\ IF r.err
               THEN log' = lg /\ ret' = "render error"
               ELSE IF Validate(r.out) # NoErr
               THEN log' = lg \o <<ValidateEv(r.out)>> /\ ret' = "validation error"
               ELSE CreatePageRaw(lg \o <<ValidateEv(r.out)>>, r.out)

\* parseBlocks: a block of unknown type is an error.
BlockTypes == {"table", "paragraph", "heading", "bullet_list", "numbered_list",
               "macro", "code_block", "horizontal_rule"}
parseBlocksOK(pg) == \A i \in 1..Len(pg.Blocks) : pg.Blocks[i].type \in BlockTypes

NotPending == ret # "pending"

InitClient ==
    /\ ValInit /\ CallIdle /\ IoIdle
    /\ log = <<>>
    /\ ret = "none"
    /\ version \in 1..MaxVersion

CallUpdatePageStorage ==
    /\ NotPending
    /\ \E pg \in ClientPages, v \in 1..MaxVersion :
         /\ page' = pg
         /\ res' = Called("UpdatePageStorage")
         /\ UpdatePageStorage(<<>>, pg, v)
    /\ UNCHANGED <<json, valVars, ioVars>>

CallUpdatePageStorageRaw ==
    /\ NotPending
    /\ \E x \in ClientXhtml, v \in 1..MaxVersion :
         /\ page' = Page(<<>>)
         /\ xhtml' = x
         /\ res' = Called("UpdatePageStorageRaw")
         /\ UpdatePageStorageRaw(<<>>, x, v)
    /\ UNCHANGED <<json, valVars, ioVars>>

CallCreatePage ==
    /\ NotPending
    /\ \E pg \in ClientPages :
         /\ page' = pg
         /\ res' = Called("CreatePage")
         /\ CreatePage(<<>>, pg)
    /\ UNCHANGED <<json, version, valVars, ioVars>>

CallCreatePageRaw ==
    /\ NotPending
    /\ \E x \in ClientXhtml :
         /\ page' = Page(<<>>)
         /\ xhtml' = x
         /\ res' = Called("CreatePageRaw")
         /\ CreatePageRaw(<<>>, x)
    /\ UNCHANGED <<json, version, valVars, ioVars>>

\* The checks of a handler's arguments, then GetPageStorageRaw for the
\* current version: "" when the handler goes on to the update.
Rejected(pageID, title) ==
    IF pageID = "" THEN "page_id is required"
    ELSE IF title = "" THEN "title is required"
    ELSE ""

\* handleUpdatePage up to and including GetPageStorageRaw.
handleUpdatePage ==
    /\ NotPending
    /\ \E pageID \in Ids, title \in Titles, pg \in ClientPages, got \in BOOLEAN :
         /\ page' = pg
         /\ xhtml' = <<>>
         /\ IF Rejected(pageID, title) # ""
            THEN log' = <<>> /\ ret' = Rejected(pageID, title) /\ res' = Called("update_page")
            ELSE IF ~parseBlocksOK(pg)
            THEN log' = <<>> /\ ret' = "invalid blocks" /\ res' = Called("update_page")
            ELSE IF ~got
            THEN /\ log' = <<Ev("GET", <<>>, 0, FALSE)>>
                 /\ ret' = "failed to get current version"
                 /\ res' = Called("update_page")
            ELSE /\ log' = <<Ev("GET", <<>>, version, TRUE)>>
                 /\ ret' = "pending"
                 /\ res' = Pending("update_page", version)
    /\ UNCHANGED <<json, version, valVars, ioVars>>

\* What the update handlers return on success for the version v their GET
\* returned: "status": "updated", "version": info.Version + 1.
UpdatedResult(v) == [status |-> "updated", version |-> v + 1]

\* handleUpdatePage sending the platform's version of the moment instead of
\* the version its GET returned.
handleUpdatePageUpdateLatest ==
    /\ ret = "pending" /\ res.op = "update_page"
    /\ UpdatePageStorage(log, page, version)
    /\ UNCHANGED <<json, page, res, valVars, ioVars>>

\* handleUpdatePage from s.client.UpdatePageStorage on.
handleUpdatePageUpdate ==
    /\ ret = "pending" /\ res.op = "update_page"
    /\ UpdatePageStorage(log, page, res.info)
    /\ UNCHANGED <<json, page, res, valVars, ioVars>>

\* handleUpdatePageXHTML up to and including GetPageStorageRaw.
handleUpdatePageXHTML ==
    /\ NotPending
    /\ \E pageID \in Ids, title \in Titles, x \in ClientXhtml, got \in BOOLEAN :
         /\ page' = Page(<<>>)
         /\ xhtml' = x
         /\ IF Rejected(pageID, title) # ""
            THEN log' = <<>> /\ ret' = Rejected(pageID, title) /\ res' = Called("update_page_xhtml")
            ELSE IF x = <<>>
            THEN log' = <<>> /\ ret' = "xhtml is required" /\ res' = Called("update_page_xhtml")
            ELSE IF ~got
            THEN /\ log' = <<Ev("GET", <<>>, 0, FALSE)>>
                 /\ ret' = "failed to get current version"
                 /\ res' = Called("update_page_xhtml")
            ELSE /\ log' = <<Ev("GET", <<>>, version, TRUE)>>
                 /\ ret' = "pending"
                 /\ res' = Pending("update_page_xhtml", version)
    /\ UNCHANGED <<json, version, valVars, ioVars>>

\* handleUpdatePageXHTML from s.client.UpdatePageStorageRaw on.
handleUpdatePageXHTMLUpdate ==
    /\ ret = "pending" /\ res.op = "update_page_xhtml"
    /\ UpdatePageStorageRaw(log, xhtml, res.info)
    /\ UNCHANGED <<json, page, xhtml, res, valVars, ioVars>>

\* handleCreatePage (space_key takes the place of page_id).
handleCreatePage ==
    /\ NotPending
    /\ \E spaceKey \in Ids, title \in Titles, pg \in ClientPages :
         /\ page' = pg
         /\ res' = Called("create_page")
         /\ IF spaceKey = "" \/ title = "" \/ ~parseBlocksOK(pg)
            THEN /\ log' = <<>>
                 /\ xhtml' = <<>>
                 /\ ret' = IF spaceKey = "" THEN "space_key is required"
                           ELSE IF title = "" THEN "title is required"
                           ELSE "invalid blocks"
            ELSE CreatePage(<<>>, pg)
    /\ UNCHANGED <<json, version, valVars, ioVars>>

\* Another editor saves the page.
ExternalEdit ==
    /\ version < MaxVersion
    /\ version' = version + 1
    /\ UNCHANGED <<log, ret, callVars, valVars, ioVars>>

NextClient ==
    \/ CallUpdatePageStorage
    \/ CallUpdatePageStorageRaw
    \/ CallCreatePage
    \/ CallCreatePageRaw
    \/ handleUpdatePage
    \/ handleUpdatePageUpdate
    \/ handleUpdatePageXHTML
    \/ handleUpdatePageXHTMLUpdate
    \/ handleCreatePage
    \/ ExternalEdit

SpecClient == InitClient /\ [][NextClient]_vars

(***************************************************************************)
(* Server.HandleTool (mcpserver/server.go): the switch on the tool name,   *)
(* the handler, and the ToolResult built from what the handler returned.   *)
(* ret is the handler's error text, or "ok" when it returned a result.     *)
(***************************************************************************)
RegisteredTools ==
    {"confluence_read_page", "confluence_read_page_xhtml", "confluence_update_page",
     "confluence_update_page_xhtml", "confluence_create_page", "confluence_create_table",
     "confluence_delete_page", "confluence_search_pages"}
ToolNames == RegisteredTools \cup {"", "confluence_read", "tools/list"}
\* The handlers that check one required string and make one API call.
RequiredArg ==
    [confluence_read_page |-> "page_id", confluence_read_page_xhtml |-> "page_id",
     confluence_delete_page |-> "page_id", confluence_search_pages |-> "cql"]
ToolTables ==
    {Table(<<>>, <<>>), Table(<<<<"1">>>>, <<Row(<<Cell(<<"<">>, NilMacro)>>)>>),
     Table(<<>>, <<Row(<<Cell(<<>>, <<MacroV(<<"status">>, NoParams, <<"<b>">>)>>)>>)>>),
     Table(<<>>, <<Row(<<Cell(<<>>, <<MacroV(<<"status">>, NoParams, <<"&">>)>>)>>)>>)}

\* HandleTool returning the handler's error as its own Go error.
HandleToolWrapAsError(name, r) ==
    IF r # "ok" THEN ToolCall(name, "returned", "nil", FALSE, "", r)
    ELSE ToolCall(name, "returned", "ToolResult", FALSE, "json", "")

\* HandleTool after the switch: err != nil gives IsError with err.Error()
\* as content, otherwise the result marshalled as content; the Go error is
\* nil (json.MarshalIndent does not fail on the handlers' maps).
HandleToolWrap(name, r) ==
    IF r # "ok" THEN ToolCall(name, "returned", "ToolResult", TRUE, r, "")
    ELSE ToolCall(name, "returned", "ToolResult", FALSE, "json", "")

InitTool == InitClient

\* HandleTool up to the switch: default returns nil and "unknown tool".
HandleToolEnter ==
    /\ tool.state # "dispatched" /\ NotPending
    /\ \E name \in ToolNames :
         tool' = IF name \in RegisteredTools
                 THEN ToolCall(name, "dispatched", "nil", FALSE, "", "")
                 ELSE ToolCall(name, "returned", "nil", FALSE, "", "unknown tool")
    /\ res' = NoRes /\ ret' = "none" /\ log' = <<>>
    /\ UNCHANGED <<page, xhtml, json, version, valVars, calls, stdin, stdout>>

\* handleReadPage, handleReadPageXHTML, handleDeletePage, handleSearchPages.
handleOneCall ==
    /\ tool.name \in DOMAIN RequiredArg
    /\ \E arg \in Ids, answered \in BOOLEAN :
         /\ res' = Called(tool.name)
         /\ IF arg = ""
            THEN log' = <<>> /\ ret' = RequiredArg[tool.name] \o " is required"
            ELSE /\ log' = <<Ev(IF tool.name = "confluence_delete_page" THEN "DELETE" ELSE "GET",
                                <<>>, 0, answered)>>
                 /\ ret' = IF answered THEN "ok" ELSE "api error"
    /\ UNCHANGED <<page, xhtml, json, version, valVars, ioVars>>

\* handleCreateTable: ValidateBlock, then RenderBlock for the preview.
handleCreateTable ==
    /\ tool.name = "confluence_create_table"
    /\ \E table \in ToolTables, ord \in Orders :
         /\ page' = Page(<<table>>)
         /\ res' = Called("create_table")
         /\ log' = <<>>
         /\ IF ValidateBlock(table, ord).err
            THEN xhtml' = <<>> /\ ret' = "table validation failed"
            ELSE \E r \in {RenderBlock(table, ord)} :
                    /\ xhtml' = r.out
                    /\ ret' = IF r.err THEN "render error" ELSE "ok"
    /\ UNCHANGED <<json, version, valVars, ioVars>>

\* The case of the switch that matches the name runs its handler.
HandleToolRun ==
    /\ tool.state = "dispatched"
    /\ \/ res.op = "none" /\ tool.name = "confluence_update_page" /\ handleUpdatePage
       \/ tool.name = "confluence_update_page" /\ handleUpdatePageUpdate
       \/ res.op = "none" /\ tool.name = "confluence_update_page_xhtml" /\ handleUpdatePageXHTML
       \/ tool.name = "confluence_update_page_xhtml" /\ handleUpdatePageXHTMLUpdate
       \/ res.op = "none" /\ tool.name = "confluence_create_page" /\ handleCreatePage
       \/ res.op = "none" /\ handleOneCall
       \/ res.op = "none" /\ handleCreateTable

\* HandleTool from the handler's return on.
HandleToolReturn ==
    /\ tool.state = "dispatched" /\ res.op # "none" /\ NotPending
    /\ tool' = HandleToolWrap(tool.name, ret)
    /\ UNCHANGED <<callVars, clientVars, valVars, calls, stdin, stdout>>

NextTool == HandleToolEnter \/ HandleToolRun \/ HandleToolReturn

SpecTool == InitTool /\ [][NextTool]_vars

(***************************************************************************)
(* The stdio transport (cmd/mcp-confluence/main.go).  stdin is the bytes   *)
(* of the input and the number of them read so far; a byte sequence is a   *)
(* sequence of items, the newline or the text of one JSON value.           *)
(* stdout is the sequence of the responses written.                        *)
(*                                                                         *)
(* A JSON integer is hi * 2^30 + lo with 0 <= lo < 2^30.  An id is absent, *)
(* null, an integer or a string; decoded into interface{} an integer       *)
(* becomes a float64.                                                      *)
(***************************************************************************)
IdAbsent   == [j |-> "absent"]
IdNull     == [j |-> "null"]
IdNum(hi, lo) == [j |-> "number", hi |-> hi, lo |-> lo]
IdStr(str)   == [j |-> "string", s |-> str]

\* The text of a request object: {"jsonrpc":"2.0","id":..,"method":..,"params":..}
\* params is "none" (absent), "bad" (not an object) or the tool name of
\* {"name": .., "arguments": {}}.
Request(id, method, params) ==
    [t |-> "request", id |-> id, method |-> method, params |-> params]
\* Any other text, and the newline byte.
Text(str) == [t |-> "text", s |-> str]
NL == [t |-> "nl"]

\* strconv.ParseFloat of an integer below 2^54: exact below 2^53, above it
\* the nearest even integer, a tie going to the multiple of 4.
ParseFloat(hi, lo) ==
    IF hi < 2^23 \/ lo % 2 = 0 THEN IdNum(hi, lo)
    ELSE IF (lo + 1) % 4 # 0 THEN IdNum(hi, lo - 1)
    ELSE IF lo + 1 = 2^30 THEN IdNum(hi + 1, 0)
    ELSE IdNum(hi, lo + 1)

\* json.Unmarshal into ID interface{}: nil for an absent or null id, a
\* float64 for a number, a string for a string.
DecodeID(id) ==
    CASE id.j = "number" -> ParseFloat(id.hi, id.lo)
      [] id.j = "string" -> id
      [] OTHER -> IdNull

\* json.Unmarshal(line, &req): the line must hold one JSON value (with the
\* newline that ends it) that is an object or null; null leaves req zero.
Decoded(req) == [ok |-> TRUE, ID |-> DecodeID(req.id), Method |-> req.method,
                 Params |-> req.params]
Undecodable  == [ok |-> FALSE, ID |-> IdNull, Method |-> "", Params |-> "none"]
Unmarshal(line) ==
    LET text == SelectSeq(line, LAMBDA b : b # NL)
    IN  IF Len(text) # 1 THEN Undecodable
        ELSE IF text[1].t = "request" THEN Decoded(text[1])
        ELSE IF text[1] = Text("null") THEN Decoded(Request(IdNull, "", "none"))
        ELSE Undecodable

\* type jsonRPCResponse: Error is 0 for a nil *rpcError.
Response(id, result, code) == [ID |-> id, Result |-> result, Error |-> code]

\* func handleToolsCall
handleToolsCall(req) ==
    IF req.Params \in {"none", "bad"} THEN Response(req.ID, "", -32602)
    ELSE IF req.Params \notin RegisteredTools THEN Response(req.ID, "", -32000)
    ELSE Response(req.ID, "ToolResult", 0)

\* func handleRequest
handleRequest(req) ==
    CASE req.Method = "initialize" -> Response(req.ID, "serverInfo", 0)
      [] req.Method = "tools/list" -> Response(req.ID, "tools", 0)
      [] req.Method = "tools/call" -> handleToolsCall(req)
      [] req.Method = "ping"       -> Response(req.ID, "{}", 0)
      [] OTHER                     -> Response(req.ID, "", -32601)

\* func sendError(encoder, nil, code, message)
sendError(out, code) == Append(out, Response(IdNull, "", code))

\* reader.ReadBytes('\n') on what is left of the input: the bytes up to and
\* including the first newline, or all of them and io.EOF.
Rest(in) == SubSeq(in.buf, in.pos + 1, Len(in.buf))
ReadBytes(in) ==
    LET rest == Rest(in)
        nl   == {i \in 1..Len(rest) : rest[i] = NL}
    IN  IF nl = {} THEN [line |-> rest, eof |-> TRUE]
        ELSE [line |-> SubSeq(rest, 1, CHOOSE i \in nl : \A k \in nl : i <= k),
              eof |-> FALSE]
Advance(in, line) == [in EXCEPT !.pos = @ + Len(line)]

\* Mutant: at io.EOF the bytes read are handled as a last line.
runStdioEOFLastLine(in, out) ==
    LET r   == ReadBytes(in)
        req == Unmarshal(r.line)
    IN  IF r.line = <<>> THEN out
        ELSE IF ~req.ok THEN sendError(out, -32700)
        ELSE IF req.ID = IdNull THEN out
        ELSE Append(out, handleRequest(req))
\* if err == io.EOF { return nil }: what runStdio has written when it returns.
runStdioEOF(in, out) == out

\* line, err := reader.ReadBytes('\n'); if err == io.EOF { return nil }
StdioEOF ==
    /\ ret = "none"
    /\ ReadBytes(stdin).eof
    /\ stdin' = Advance(stdin, ReadBytes(stdin).line)
    /\ stdout' = runStdioEOF(stdin, stdout)
    /\ ret' = "nil"
    /\ UNCHANGED <<valVars, callVars, calls, tool, log, version>>

\* json.Unmarshal fails: sendError(encoder, nil, -32700, "Parse error"); continue
StdioParseError ==
    /\ ret = "none"
    /\ \E r \in {ReadBytes(stdin)} :
         /\ ~r.eof
         /\ ~Unmarshal(r.line).ok
         /\ stdin' = Advance(stdin, r.line)
         /\ stdout' = sendError(stdout, -32700)
    /\ UNCHANGED <<valVars, callVars, clientVars, calls, tool>>

\* if req.ID == nil { handleNotification(&req); continue }
StdioNotification ==
    /\ ret = "none"
    /\ \E r \in {ReadBytes(stdin)} :
         /\ ~r.eof
         /\ Unmarshal(r.line).ok
         /\ Unmarshal(r.line).ID = IdNull
         /\ stdin' = Advance(stdin, r.line)
    /\ UNCHANGED <<valVars, callVars, clientVars, calls, tool, stdout>>

\* response := handleRequest(server, &req); encoder.Encode(response): the
\* id written is the decimal text of the float64 the id was decoded into.
StdioRequest ==
    /\ ret = "none"
    /\ \E r \in {ReadBytes(stdin)} :
         /\ ~r.eof
         /\ Unmarshal(r.line).ok
         /\ Unmarshal(r.line).ID # IdNull
         /\ stdin' = Advance(stdin, r.line)
         /\ stdout' = Append(stdout, handleRequest(Unmarshal(r.line)))
    /\ UNCHANGED <<valVars, callVars, clientVars, calls, tool>>

MaxLines == 2   \* newline-terminated lines of the input

\* What a line holds: nothing, one JSON value, or two.
LineTexts ==
    {<<>>, <<Text("{")>>, <<Text("null")>>,
     <<Request(IdNum(0, 1), "ping", "none")>>,
     <<Request(IdNum(2^23, 1), "ping", "none")>>,
     <<Request(IdNum(2^23, 3), "initialize", "none")>>,
     <<Request(IdStr("a"), "tools/list", "none")>>,
     <<Request(IdStr("a"), "resources/list", "none")>>,
     <<Request(IdNull, "ping", "none")>>,
     <<Request(IdAbsent, "initialized", "none")>>,
     <<Request(IdNum(0, 2), "tools/call", "confluence_read_page")>>,
     <<Request(IdNum(0, 2), "tools/call", "confluence_read")>>,
     <<Request(IdNum(0, 2), "tools/call", "bad")>>,
     <<Request(IdNum(0, 1), "ping", "none"), Request(IdNum(0, 2), "ping", "none")>>}
StdinInputs ==
    {Concat([i \in 1..Len(ls) |-> ls[i] \o <<NL>>]) \o last :
        ls \in SeqsUpTo(LineTexts, MaxLines), last \in LineTexts}

InitStdio ==
    /\ ValInit /\ CallIdle /\ ClientIdle
    /\ calls = NoCalls /\ tool = NoTool
    /\ stdin \in {[buf |-> b, pos |-> 0] : b \in StdinInputs}
    /\ stdout = <<>>

NextStdio ==
    \/ StdioEOF
    \/ StdioParseError
    \/ StdioNotification
    \/ StdioRequest

SpecStdio == InitStdio /\ [][NextStdio]_vars

\* runStdio is one goroutine that is never blocked by a later line: the
\* step that is next is taken.
SpecStdioFair == SpecStdio /\ WF_vars(NextStdio)

(***************************************************************************)
(* Concurrent calls of Validate, ValidateWithOptions, Parse, Render and    *)
(* RenderBlock (storage).  Each goroutine makes one call; a step is one    *)
(* iteration of the loop of the function it runs.  Memory the calls can    *)
(* share: opts[1] is DefaultValidatorOptions(), whose ForbiddenTags is the *)
(* package-level map, opts[2] the option set of the callers; page is the   *)
(* Page (and its first block the Block) the callers pass; AllowedMacros is *)
(* the package-level map.  tableDepth[f] and tbodyFound[f] are the locals  *)
(* of the ValidateWithOptions call whose frame is f.                       *)
(***************************************************************************)
NumGoroutines == 2   \* goroutines that call into the package

Goroutines == 1..NumGoroutines

\* A call: the function, its xhtml argument and the index of its options,
\* the decoder's tokens and position (or the index of the next block), what
\* it has built so far, the map iteration orders it met, and its result.
Call(op, x, o, pc, toks, i, out, ords, result) ==
    [op |-> op, x |-> x, o |-> o, pc |-> pc, toks |-> toks, i |-> i, out |-> out,
     ords |-> ords, result |-> result]
NoCall == Call("none", <<>>, 1, "idle", <<>>, 1, <<>>, <<>>, NoErr)
Return(c, result) == [c EXCEPT !.pc = "done", !.result = result]

\* Mutant: tableDepth and tbodyFound are package-level variables.
FrameShared(g) == 1
\* var tableDepth int; var tbodyFound bool: locals of each call.
Frame(g) == g

ConcurrentInputs ==
    {<<"<table>", "<tbody>", "<tr>", "<td>", "</td>", "</tr>", "</tbody>", "</table>">>,
     <<"<table>", "<tr>", "</tr>", "</table>">>}
CallerOptions ==
    [RequireTableTbody |-> FALSE, AllowedMacros |-> {<<"status">>, <<"info">>},
     ForbiddenTags |-> {"td", "structured-macro"}]
ConcurrentPages ==
    {Page(<<Macro(<<"status">>, SetParam(SetParam(NoParams, <<"colour">>, <<"1">>),
                                         <<"title">>, <<"2">>), <<>>),
            Heading(1, <<"1">>)>>),
     Page(<<Paragraph(<<"1">>), Heading(7, <<"1">>), HorizontalRule>>)}

InitConcurrent ==
    /\ calls = [g \in Goroutines |-> NoCall]
    /\ opts = <<DefaultValidatorOptions, CallerOptions>>
    /\ page \in ConcurrentPages
    /\ AllowedMacros = {}
    /\ tableDepth = [g \in Goroutines |-> 0]
    /\ tbodyFound = [g \in Goroutines |-> FALSE]
    /\ open = <<>> /\ tok = NoTok /\ verr = NoErr /\ vpc = "idle" /\ frames = <<>>
    /\ xhtml = <<>> /\ res = NoRes /\ json = NoJSON
    /\ ClientIdle
    /\ tool = NoTool /\ stdin = <<>> /\ stdout = <<>>

\* go Validate(x), go ValidateWithOptions(x, opts): the function's prologue
\* up to the declaration of its locals.
GoValidate(g) ==
    /\ calls[g].pc = "idle"
    /\ \E x \in ConcurrentInputs, o \in 1..2 :
         calls' = [calls EXCEPT ![g] =
                     Call(IF o = 1 THEN "Validate" ELSE "ValidateWithOptions",
                          x, o, "running", Tokenize(x), 1, <<>>, <<>>, NoErr)]
    /\ tableDepth' = [tableDepth EXCEPT ![Frame(g)] = 0]
    /\ tbodyFound' = [tbodyFound EXCEPT ![Frame(g)] = FALSE]
    /\ UNCHANGED <<open, tok, verr, vpc, frames, AllowedMacros, opts, callVars,
                   clientVars, tool, stdin, stdout>>

\* One iteration of the loop of ValidateWithOptions.
ValidateStep(g) ==
    /\ calls[g].pc = "running"
    /\ calls[g].op \in {"Validate", "ValidateWithOptions"}
    /\ \E c \in {calls[g]} :
         IF c.i > Len(c.toks)
         THEN /\ calls' = [calls EXCEPT ![g] = Return(c, NoErr)]
              /\ UNCHANGED <<tableDepth, tbodyFound>>
         ELSE \E r \in {ValidateToken(opts[c.o], tableDepth[Frame(g)],
                                      tbodyFound[Frame(g)], c.toks[c.i])} :
                /\ calls' = [calls EXCEPT ![g] =
                               IF r.err # NoErr THEN Return(c, r.err)
                               ELSE [c EXCEPT !.i = @ + 1]]
                /\ tableDepth' = [tableDepth EXCEPT ![Frame(g)] = r.tableDepth]
                /\ tbodyFound' = [tbodyFound EXCEPT ![Frame(g)] = r.tbodyFound]
    /\ UNCHANGED <<open, tok, verr, vpc, frames, AllowedMacros, opts, callVars,
                   clientVars, tool, stdin, stdout>>

\* go Parse(x)
GoParse(g) ==
    /\ calls[g].pc = "idle"
    /\ \E x \in ConcurrentInputs :
         calls' = [calls EXCEPT ![g] =
                     Call("Parse", x, 1, "running", Tokenize(x), 1, <<>>, <<>>, NoErr)]
    /\ UNCHANGED <<valVars, callVars, clientVars, tool, stdin, stdout>>

\* One iteration of the loop of Parse.
ParseStep(g) ==
    /\ calls[g].pc = "running"
    /\ calls[g].op = "Parse"
    /\ \E c \in {calls[g]} :
         calls' = [calls EXCEPT ![g] =
            IF c.i > Len(c.toks) THEN Return(c, [page |-> Page(c.out), err |-> FALSE])
            ELSE CASE c.toks[c.i].k = "err" -> Return(c, [page |-> NilPage, err |-> TRUE])
                   [] c.toks[c.i].k = "start" ->
                        With(parseElement(c.toks, c.i + 1, c.toks[c.i]), LAMBDA b :
                            IF b.err THEN Return(c, [page |-> NilPage, err |-> TRUE])
                            ELSE [c EXCEPT !.i = b.pos, !.out = @ \o b.val])
                   [] OTHER -> [c EXCEPT !.i = @ + 1]]
    /\ UNCHANGED <<valVars, callVars, clientVars, tool, stdin, stdout>>

\* go Render(page), go RenderBlock(page.Blocks[0])
GoRender(g) ==
    /\ calls[g].pc = "idle"
    /\ \E op \in {"Render", "RenderBlock"} :
         calls' = [calls EXCEPT ![g] =
                     Call(op, <<>>, 1, "running", <<>>, 1, <<>>, <<>>, NoErr)]
    /\ UNCHANGED <<valVars, callVars, clientVars, tool, stdin, stdout>>

\* One iteration of the loop of Render: RenderBlock on the next block.
RenderStep(g) ==
    /\ calls[g].pc = "running"
    /\ calls[g].op = "Render"
    /\ \E c \in {calls[g]} :
         IF c.i > Len(page.Blocks)
         THEN calls' = [calls EXCEPT ![g] = Return(c, Rendered(c.out))]
         ELSE \E ord \in Orders :
                \E r \in {RenderBlock(page.Blocks[c.i], ord)} :
                    calls' = [calls EXCEPT ![g] =
                                IF r.err THEN Return([c EXCEPT !.ords = Append(@, ord)],
                                                     RenderError)
                                ELSE [c EXCEPT !.i = @ + 1, !.out = @ \o r.out,
                                               !.ords = Append(@, ord)]]
    /\ UNCHANGED <<valVars, callVars, clientVars, tool, stdin, stdout>>

\* RenderBlock(block) on the first block of the page.
RenderBlockStep(g) ==
    /\ calls[g].pc = "running"
    /\ calls[g].op = "RenderBlock"
    /\ \E ord \in Orders :
         calls' = [calls EXCEPT ![g] =
                     Return([calls[g] EXCEPT !.ords = <<ord>>],
                            RenderBlock(page.Blocks[1], ord))]
    /\ UNCHANGED <<valVars, callVars, clientVars, tool, stdin, stdout>>

NextConcurrent ==
    \E g \in Goroutines :
        \/ GoValidate(g)
        \/ ValidateStep(g)
        \/ GoParse(g)
        \/ ParseStep(g)
        \/ GoRender(g)
        \/ RenderStep(g)
        \/ RenderBlockStep(g)

SpecConcurrent == InitConcurrent /\ [][NextConcurrent]_vars


(***************************************************************************)
(* Claims about the validator, checked under Spec.                         *)
(***************************************************************************)
\* This step read a token from the decoder.
Consumed == vpc = "running" /\ tok' # NoTok /\ (tok' # tok \/ open' # open)

TrMessage    == "<tr> must be inside <tbody>"
TableMessage == "<table> must contain <tbody>"

\* C4 (as claimed): with requireTableTbody, every table whose own frame is
\* still "no tbody seen" when its end-tag is read fails there with
\* "<table> must contain <tbody>", whatever tables nested in it contained.
C4_TableWithoutOwnTbodyFails ==
    [][ ( /\ Consumed
          /\ tok' = EndTok("table")
          /\ frames # <<>> /\ ~Last(frames)
          /\ opts.RequireTableTbody )
        => ( /\ vpc' = "done"
             /\ verr' = ValidationError(TableMessage, <<"table">>) ) ]_vars

\* C5 (as claimed): a tr start-tag read while the innermost open table has
\* seen no tbody fails with "<tr> must be inside <tbody>" when
\* requireTableTbody is set; when it is not set, no table-structure error
\* is reported at all.
C5_TrOutsideTbodyFails ==
    [][ /\ ( /\ Consumed
             /\ tok'.k = "start" /\ tok'.name = "tr"
             /\ "tr" \notin opts.ForbiddenTags
             /\ frames # <<>> /\ ~Last(frames)
             /\ opts.RequireTableTbody )
           => ( /\ vpc' = "done"
                /\ verr' = ValidationError(TrMessage, <<"tr">>) )
        /\ ~opts.RequireTableTbody
           => verr'.Message \notin {TrMessage, TableMessage} ]_vars

\* C6 (as claimed): with a non-empty allowlist every structured-macro
\* start-tag whose name is not in the set (a missing or empty name is not in
\* the set) fails with "disallowed macro"; with an empty allowlist no macro
\* is rejected for its name.
C6_MacroAllowlist ==
    /\ ( /\ tok.k = "start" /\ tok.name = "structured-macro"
         /\ "structured-macro" \notin opts.ForbiddenTags
         /\ opts.AllowedMacros # {}
         /\ getMacroName(tok) \notin opts.AllowedMacros )
       => (vpc = "done" /\ verr.Message = "disallowed macro")
    /\ opts.AllowedMacros = {} => verr.Message # "disallowed macro"

\* C28: the name ValidateWithOptions checks against allowedMacros at a
\* structured-macro start-tag is the name Parse stores in Macro.Name, also
\* when the tag has several attributes with local name "name": under a
\* non-empty allowlist the tag is rejected as a disallowed macro exactly when
\* the (non-empty) name Parse stores is not in the set.
C28_SameMacroName ==
    ( /\ tok.k = "start" /\ tok.name = "structured-macro"
      /\ "structured-macro" \notin opts.ForbiddenTags
      /\ opts.AllowedMacros # {}
      /\ NameAttr(tok.attrs, <<>>) # <<>> )
       => /\ getMacroName(tok) = NameAttr(tok.attrs, <<>>)
          /\ (vpc = "done" /\ verr.Message = "disallowed macro")
                <=> NameAttr(tok.attrs, <<>>) \notin opts.AllowedMacros

\* C7: a start-tag read before any violation whose local name is in
\* forbiddenTags fails the call with "forbidden tag" naming it, at any
\* depth and under any prefix; the default set is exactly the twelve tags.
C7_ForbiddenTagRejected ==
    /\ (tok.k = "start" /\ tok.name \in opts.ForbiddenTags)
          => (vpc = "done" /\ verr = ValidationError("forbidden tag", <<tok.name>>))
    /\ DefaultValidatorOptions.ForbiddenTags =
          {"thead", "tfoot", "colgroup", "col", "div", "span",
           "script", "style", "iframe", "form", "input", "button"}

\* Witness: <ac:div> three levels below the wrapper, rejected as "div".
C7_Witness ==
    /\ vpc = "done" /\ tok.k = "start" /\ tok.name = "div"
    /\ Len(open) = 4 /\ Last(open) = "ac:div"
    /\ opts.ForbiddenTags = ForbiddenTags
    /\ verr = ValidationError("forbidden tag", <<"div">>)

\* C8: one pass, first failure wins.  After the call has returned no token
\* is read; a decoder error is reported as "invalid XML" and only a decoder
\* error is; the error is raised by the token just read, and on one
\* start-tag the forbidden-tag check precedes the allowlist check, which
\* precedes the table checks.
C8_FirstFailureWins ==
    [][ /\ vpc = "done" => ((tok' = tok /\ open' = open /\ verr' = verr) \/ tok' = NoTok)
        /\ verr' # NoErr => vpc' = "done"
        /\ Consumed =>
            /\ tok'.k = "err" <=> verr'.Message = "invalid XML"
            /\ (tok'.k = "start" /\ tok'.name \in opts.ForbiddenTags)
                  => verr'.Message = "forbidden tag"
            /\ verr'.Message = "disallowed macro"
                  => (tok'.k = "start" /\ tok'.name \notin opts.ForbiddenTags)
            /\ verr'.Message = TrMessage
                  => (tok'.k = "start" /\ tok'.name \notin opts.ForbiddenTags)
            /\ verr'.Message = TableMessage => tok'.k = "end"
            /\ verr' = NoErr => vpc' = "running" ]_vars

\* Witness: a tr that is both forbidden (custom set) and outside tbody is
\* reported as forbidden.
C8_Witness ==
    /\ vpc = "done" /\ tok.k = "start" /\ tok.name = "tr"
    /\ "tr" \in opts.ForbiddenTags /\ opts.RequireTableTbody
    /\ tableDepth > 0 /\ ~tbodyFound
    /\ verr = ValidationError("forbidden tag", <<"tr">>)

\* The innermost open table of the stack st has no open tbody inside it.
TrOutsideTbody(st) ==
    LET tables == {i \in 1..Len(st) : Local(st[i]) = "table"}
    IN  /\ tables # {}
        /\ \A j \in 1..Len(st) :
             (\A i \in tables : i < j) => Local(st[j]) # "tbody"

\* C27: with the default options no accepted input has a tr inside a table
\* that is not a descendant of a tbody of that table: reading such a tr
\* (for example after the table's tbody has been closed) fails the call.
C27_TrInsideTbody ==
    [][ ( /\ Consumed
          /\ opts = DefaultValidatorOptions
          /\ tok'.k = "start" /\ tok'.name = "tr"
          /\ TrOutsideTbody(open) )
        => ( vpc' = "done" /\ verr' # NoErr ) ]_vars

(***************************************************************************)
(* Claims about Render, Validate and Parse on IR pages (SpecPipeline).     *)
(***************************************************************************)

\* C1: for every Page for which Render returns no error, Validate of the
\* rendered string with default options succeeds (arbitrary Macro.Body and
\* CodeBlock.Code included).
C1_ValidatorGate == res.op = "Validate" => res.verr = NoErr

\* The strings of the round-trip subset: no padding, no reserved characters.
CleanText(t) == t \in {<<>>, <<"1">>, <<"1", " ", "2">>, <<"2">>, <<"go">>, <<"status">>}
CleanMacro(m) ==
    /\ CleanText(m.Name) /\ m.Name # <<>> /\ CleanText(m.Body)
    /\ Cardinality(DOMAIN m.Params) <= 1
    /\ \A k \in DOMAIN m.Params : CleanText(m.Params[k])
CleanCell(c) ==
    IF c.Macro = NilMacro THEN CleanText(c.Text)
    ELSE c.Text = <<>> /\ CleanMacro(c.Macro[1])
CleanBlock(b) ==
    CASE b.type = "heading"   -> b.Level \in 1..6 /\ CleanText(b.Text)
      [] b.type = "paragraph" -> CleanText(b.Text)
      [] b.type \in {"bullet_list", "numbered_list"} ->
             \A i \in 1..Len(b.Items) : CleanText(b.Items[i].Text)
      [] b.type = "table" ->
             /\ Len(b.Headers) > 0
             /\ \A i \in 1..Len(b.Headers) : CleanText(b.Headers[i])
             /\ \A i \in 1..Len(b.Rows) :
                  /\ Len(b.Rows[i].Cells) > 0
                  /\ \A j \in 1..Len(b.Rows[i].Cells) : CleanCell(b.Rows[i].Cells[j])
      [] b.type = "macro"      -> CleanMacro(b)
      [] b.type = "code_block" -> CleanText(b.Language) /\ CleanText(b.Code)
      [] b.type = "horizontal_rule" -> TRUE
      [] OTHER -> FALSE
CleanPage(pg) == \A i \in 1..Len(pg.Blocks) : CleanBlock(pg.Blocks[i])

\* C2: for every Page of the IR's representable subset, x1 = Render(p)
\* parses without error and Render(Parse(x1)) equals x1 byte for byte.
C2_RoundTrip ==
    CleanPage(page) =>
        /\ res.op = "Parse" => ~res.err
        /\ res.op = "RenderParsed" => ~res.err /\ res.out = xhtml

\* C11: escaping is lossless: RenderBlock of Paragraph{Text: t} succeeds and
\* Parse of its output yields exactly one Paragraph whose Text equals t.
C11_EscapingLossless ==
    ( /\ Len(page.Blocks) = 1
      /\ page.Blocks[1].type = "paragraph" )
        => /\ res.op = "Render" => ~res.err
           /\ res.op = "Parse" => (~res.err /\ res.page = page)

\* C12: for every input on which Parse succeeds, also after the caller has
\* appended text-cell rows to a parsed table, Render of the page succeeds
\* and its output passes Validate with default options.
C12_ParseRenderValid ==
    /\ res.op = "RenderParsed" => ~res.err
    /\ res.op = "ValidateParsed" => res.verr = NoErr

\* C16: Render returns "" and an error when RenderBlock fails for any block
\* of the page, however many earlier blocks rendered; otherwise it returns
\* the concatenation of the blocks' renderings in page order.
C16_RenderAllOrNothing ==
    res.op = "Render" =>
        LET n     == Len(page.Blocks)
            fails == {i \in 1..n : \A ord \in Orders : RenderBlock(page.Blocks[i], ord).err}
        IN  IF fails # {}
            THEN res.err /\ res.out = <<>> /\ xhtml = <<>>
            ELSE /\ ~res.err
                 /\ \E ord \in Orders :
                      res.out = Concat([i \in 1..n |-> RenderBlock(page.Blocks[i], ord).out])

\* Witness: Render has failed on a page whose first block renders and whose
\* second block does not.
C16_Witness ==
    /\ res.op = "Render" /\ res.err /\ res.out = <<>>
    /\ Len(page.Blocks) = 2
    /\ \A ord \in Orders : ~RenderBlock(page.Blocks[1], ord).err
    /\ \A ord \in Orders : RenderBlock(page.Blocks[2], ord).err

\* C20: two calls of Render on the same page return the same string, also
\* when the page holds macros with two or more parameters.
C20_RenderDeterministic ==
    res.op = "RenderAgain" => (~res.err /\ res.out = xhtml)

(***************************************************************************)
(* Claims about Parse on table markup (SpecParse).                         *)
(***************************************************************************)
IsHeaderRow(r) == \E i \in 1..Len(r) : r[i].tag = "th"
RowTexts(r) == [i \in 1..Len(r) |-> r[i].text]
\* The headers the claim prescribes: the cell texts of the last header row.
LastHeaderTexts(rs) ==
    IF \E i \in 1..Len(rs) : IsHeaderRow(rs[i])
    THEN RowTexts(rs[CHOOSE i \in 1..Len(rs) :
                       IsHeaderRow(rs[i]) /\ \A j \in (i + 1)..Len(rs) : ~IsHeaderRow(rs[j])])
    ELSE <<>>
DataRows(rs) == SelectSeq(rs, LAMBDA r : ~IsHeaderRow(r))

\* C9: each tr is classified on its own; a row with a th cell replaces the
\* table's Headers by its own cell texts (the last header row wins), any
\* other row is appended to Rows in encounter order.
C9_LastHeaderRowWins ==
    res.op = "Parse" =>
        \A rs \in RowSeqs, l \in Layouts :
            xhtml = TableMarkup(rs, l) =>
                /\ ~res.err
                /\ Len(res.page.Blocks) = 1
                /\ res.page.Blocks[1].Headers = LastHeaderTexts(rs)
                /\ Len(res.page.Blocks[1].Rows) = Len(DataRows(rs))

\* C10: every Cell of every Table returned by Parse has at most one of Text
\* (non-empty) and Macro (non-nil) populated.
C10_CellTextOrMacro ==
    res.op = "Parse" /\ ~res.err =>
        \A b \in 1..Len(res.page.Blocks) :
            res.page.Blocks[b].type = "table" =>
                \A i \in 1..Len(res.page.Blocks[b].Rows) :
                    \A j \in 1..Len(res.page.Blocks[b].Rows[i].Cells) :
                        LET c == res.page.Blocks[b].Rows[i].Cells[j]
                        IN  ~(c.Text # <<>> /\ c.Macro # NilMacro)


(***************************************************************************)
(* Claims about Parse on damaged documents and unknown elements (SpecDocs).*)
(***************************************************************************)
\* C17: Parse returns an error and no Page whenever the tokenizer reports an
\* error anywhere in the wrapped input, even after it has parsed top-level
\* blocks; it returns a Page only when the whole input tokenizes.
C17_NoPartialPage ==
    res.op = "Parse" =>
        /\ res.err <=> (Last(Tokenize(xhtml)) = ErrTok)
        /\ res.err => res.page = NilPage
        /\ ~res.err => res.page # NilPage

\* Witness: Parse has failed on an input whose leading part, on its own,
\* parses to a page with blocks.
C17_Witness ==
    /\ res.op = "Parse" /\ res.err /\ res.page = NilPage
    /\ \E n \in 1..Len(xhtml) - 1 :
         LET r == Parse(SubSeq(xhtml, 1, n)) IN ~r.err /\ r.page.Blocks # <<>>

\* Every text a page carries in paragraphs, headings, list items and cells.
TextsOf(pg) ==
    UNION {CASE b.type \in {"paragraph", "heading"} -> {b.Text}
             [] b.type \in {"bullet_list", "numbered_list"} ->
                    {b.Items[i].Text : i \in 1..Len(b.Items)}
             [] b.type = "table" ->
                    {b.Headers[i] : i \in 1..Len(b.Headers)} \cup
                    UNION {{b.Rows[i].Cells[j].Text : j \in 1..Len(b.Rows[i].Cells)}
                             : i \in 1..Len(b.Rows)}
             [] OTHER -> {}
           : b \in {pg.Blocks[i] : i \in 1..Len(pg.Blocks)}}

\* C18: an unknown element at top level or inside a table, tbody, row or
\* list contributes nothing, whatever is nested in it (recognised tags,
\* children of its own name), and what follows its end-tag is parsed as if
\* the element were not there.
C18_UnknownSkipped ==
    \A ctx \in Contexts : \A u \in Unknowns :
        (res.op = "Parse" /\ xhtml = Build(ctx, u)) =>
            /\ ~res.err
            /\ res.page = Parse(Build(ctx, <<>>)).page
            /\ TextsOf(res.page) = {<<"1">>}

\* Witness: Parse has skipped, inside a table, an unknown element holding a
\* child of its own name and a row, and has parsed the row that follows.
C18_Witness ==
    /\ res.op = "Parse" /\ ~res.err
    /\ xhtml = Build("table", <<"<x>", "<x>", "<tr>", "<td>", "2", "</td>", "</tr>", "</x>",
                                "<tr>", "<td>", "2", "</td>", "</tr>", "</x>">>)
    /\ Len(res.page.Blocks) = 1 /\ Len(res.page.Blocks[1].Rows) = 1
    /\ res.page.Blocks[1].Rows[1].Cells[1].Text = <<"1">>

(***************************************************************************)
(* Claims about the JSON conversion (SpecConvert).                         *)
(***************************************************************************)
\* C19: a block of any of the eight variants converted with blockToJSON,
\* encoded and decoded as JSON and converted back with parseBlock is equal
\* to the original in every field, a cell's Macro with its Name, Params and
\* Body included.
C19_JSONRoundTrip ==
    res.op = "parseBlock" => (~res.err /\ res.page = page)

\* The text Parse stored for the one container of Wrap(c, ...).
TextIn(c, pg) ==
    CASE c = "td" -> pg.Blocks[1].Rows[1].Cells[1].Text
      [] c = "th" -> pg.Blocks[1].Headers[1]
      [] c = "li" -> pg.Blocks[1].Items[1].Text
      [] OTHER    -> pg.Blocks[1].Text
\* The texts of the nested elements, with sep between neighbours.
RECURSIVE JoinTexts(_, _)
JoinTexts(ks, sep) ==
    IF Len(ks) = 1 THEN ks[1].text
    ELSE ks[1].text \o sep \o JoinTexts(Tail(ks), sep)

\* C24: the text of a cell is the texts of its nested elements with one
\* space between neighbours, the text of a paragraph, heading or list item
\* is their texts with nothing between; the text of a nested element is all
\* character data inside it at any depth.  (Stated up to the trimming of
\* the container's whole text.)
C24_NestedText ==
    \A c \in Containers : \A ks \in KidSeqs :
        (res.op = "Parse" /\ xhtml = Wrap(c, KidsMarkup(ks))) =>
            /\ ~res.err
            /\ TextIn(c, res.page) =
                 TrimSpace(JoinTexts(ks, IF c \in {"td", "th"} THEN <<" ">> ELSE <<>>))

\* The Params and Body the claim prescribes for the children cs.
RECURSIVE ParamsOfChildren(_, _)
ParamsOfChildren(cs, ps) ==
    IF cs = <<>> THEN ps
    ELSE ParamsOfChildren(Tail(cs),
             IF Head(cs).kind = "param" /\ Head(cs).key # <<>>
             THEN (Head(cs).key :> Head(cs).text) @@ ps ELSE ps)
RECURSIVE BodyOfChildren(_, _)
BodyOfChildren(cs, body) ==
    IF cs = <<>> THEN body
    ELSE BodyOfChildren(Tail(cs), IF Head(cs).kind = "body" THEN Head(cs).text ELSE body)

\* C25: a parsed structured-macro has the Name of its name attribute, one
\* Params entry per parameter child with a non-empty name, the text of its
\* rich-text-body or plain-text-body child as Body, and nothing from any
\* other child.
C25_MacroParse ==
    \A cs \in ChildSeqs :
        (res.op = "Parse" /\ xhtml = MacroWith(cs)) =>
            /\ ~res.err
            /\ res.page = Page(<<Macro(<<"status">>, ParamsOfChildren(cs, NoParams),
                                       BodyOfChildren(cs, <<>>))>>)

(***************************************************************************)
(* Claims about the package-level allowlist (SpecGlobal).                  *)
(***************************************************************************)
\* The names of the structured-macro start-tags of x.
MacrosOf(x) ==
    With(Tokenize(x), LAMBDA toks :
        {getMacroName(toks[i]) :
            i \in {j \in 1..Len(toks) :
                     toks[j].k = "start" /\ toks[j].name = "structured-macro"}})

\* C13: the package-level AllowedMacros is the allowlist Validate uses:
\* once it is non-empty, Validate rejects every structured-macro whose name
\* is not in it; while it is empty, Validate allows all macros.
C13_GlobalAllowlist ==
    [][ (AllowedMacros' = AllowedMacros /\ res'.op = "Validate") =>
          /\ (AllowedMacros # {} /\ \E n \in MacrosOf(xhtml') : n \notin AllowedMacros)
                => res'.verr.Message = "disallowed macro"
          /\ AllowedMacros = {} => res'.verr.Message # "disallowed macro" ]_vars

(***************************************************************************)
(* Claims about RenderBlock and ValidateBlock (SpecBlock).                 *)
(***************************************************************************)
\* C14: Render of an absent page and RenderBlock of an absent block (a nil
\* pointer of any variant, a nil Block value) return "" and no error; a
\* non-nil value outside the eight variants returns an error.
C14_AbsenceTolerated ==
    /\ (page = NilPage /\ res.op = "Render") => (~res.err /\ res.out = <<>>)
    /\ (page # NilPage /\ res.op = "RenderBlock") =>
          /\ (IsNil(page) \/ page = NilBlock) => (~res.err /\ res.out = <<>>)
          /\ (~IsNil(page) /\ page # NilBlock /\ page.type \notin VariantTypes)
                => (res.err /\ res.out = <<>>)

\* The text fmt.Sprintf writes for a level in 1..6.
HTagsOpen  == <<"<h1>", "<h2>", "<h3>", "<h4>", "<h5>", "<h6>">>
HTagsClose == <<"</h1>", "</h2>", "</h3>", "</h4>", "</h5>", "</h6>">>

\* C15: RenderBlock of a Heading returns <hN>escaped-text</hN> iff its
\* level N is in 1..6; for any other level it returns an error and "",
\* and ValidateBlock returns that error.
C15_HeadingBounds ==
    (page # NilPage /\ ~IsNil(page) /\ page.type = "heading") =>
        /\ res.op = "RenderBlock" =>
              IF page.Level \in 1..6
              THEN /\ ~res.err
                   /\ res.out = <<HTagsOpen[page.Level]>> \o EscapeString(page.Text)
                                  \o <<HTagsClose[page.Level]>>
              ELSE res.err /\ res.out = <<>>
        /\ (res.op = "ValidateBlock" /\ page.Level \notin 1..6) =>
              (res.err /\ res.verr = NoErr)
        /\ (res.op = "ValidateBlock" /\ page.Level \in 1..6) => ~res.err

\* Witness: ValidateBlock has returned the render error of a level-7 heading.
C15_Witness ==
    /\ page # NilPage /\ ~IsNil(page) /\ page.type = "heading" /\ page.Level = 7
    /\ res.op = "ValidateBlock" /\ res.err

(***************************************************************************)
(* Claims about the client and the handlers (SpecClient).                  *)
(***************************************************************************)
IsWrite(e) == e.ev \in {"PUT", "POST"}

\* C3: a PUT or POST is sent only after storage.Validate has succeeded, in
\* the same call, on exactly the markup the request carries; when Validate
\* or Render fails, the call sends no write request and returns an error.
C3_WriteGate ==
    /\ \A i \in 1..Len(log) :
         IsWrite(log[i]) =>
             \E j \in 1..(i - 1) :
                 log[j].ev = "Validate" /\ log[j].ok /\ log[j].body = log[i].body
    /\ \A j \in 1..Len(log) :
         (log[j].ev = "Validate" /\ ~log[j].ok) =>
             /\ ret = "validation error"
             /\ \A i \in 1..Len(log) : ~IsWrite(log[i])
    /\ ret \in {"render error", "validation error"} =>
         \A i \in 1..Len(log) : ~IsWrite(log[i])
    /\ (res.op \in {"UpdatePageStorageRaw", "CreatePageRaw"} /\ Validate(xhtml) # NoErr) =>
         ret = "validation error"

\* A handler's update has sent its PUT after the GET and the validations.
C3_Witness ==
    /\ res.op = "update_page_xhtml"
    /\ ret = "ok"
    /\ \E i \in 1..Len(log) : log[i].ev = "PUT" /\ log[i].ok /\ log[i].body # <<>>

Puts == {i \in 1..Len(log) : log[i].ev = "PUT"}

\* C22: in handleUpdatePage and handleUpdatePageXHTML a GET fetches the
\* current version v before any write; the one PUT that follows carries
\* v + 1, on success the tool reports v + 1, and no PUT is sent when the
\* GET, the rendering or the validation fails.
C22_OptimisticVersion ==
    res.op \in {"update_page", "update_page_xhtml"} =>
        /\ Cardinality(Puts) <= 1
        /\ \A i \in Puts :
             /\ i > 1 /\ log[1].ev = "GET" /\ log[1].ok
             /\ log[i].number = log[1].number + 1
        /\ ret = "ok" =>
             /\ Puts # {}
             /\ UpdatedResult(res.info).version = log[1].number + 1
        /\ ret \in {"failed to get current version", "render error", "validation error",
                    "invalid blocks", "page_id is required", "title is required",
                    "xhtml is required"} => Puts = {}
        /\ (log # <<>> /\ log[1].ev = "GET" /\ ~log[1].ok) => Len(log) = 1

\* Witness: handleUpdatePage has sent its PUT after another editor saved the
\* page between its GET and its PUT; the PUT still carries the GET's v + 1.
C22_Witness ==
    /\ res.op = "update_page"
    /\ Puts # {}
    /\ log[1].ev = "GET" /\ log[1].number < version
    /\ ~log[Len(log)].ok

\* C23: HandleTool returns a Go error and no result only for a name outside
\* the eight registered names; for a registered tool every failure of the
\* handler comes back as a ToolResult with IsError and the error text, and
\* every success as a ToolResult without IsError, both with a nil error.
C23_HandleToolErrors ==
    tool.state = "returned" =>
        /\ tool.err # "" <=> tool.name \notin RegisteredTools
        /\ tool.err # "" <=> tool.result = "nil"
        /\ tool.name \in RegisteredTools =>
             /\ tool.result = "ToolResult"
             /\ tool.IsError <=> ret # "ok"
             /\ tool.IsError => tool.text = ret

\* Witness: HandleTool has returned the validation failure of an update as
\* a ToolResult with IsError.
C23_Witness ==
    /\ tool.state = "returned" /\ tool.name = "confluence_update_page_xhtml"
    /\ tool.result = "ToolResult" /\ tool.IsError /\ tool.text = "validation error"
    /\ tool.err = ""

(***************************************************************************)
(* Claims about Parse followed by Render (SpecParseRender).                *)
(***************************************************************************)
\* The element names of the start-tags written in x.
StartNamesIn(x) == {n \in PlainNames : \E i \in 1..Len(x) : x[i] = STag(n)}

\* C29: every block Parse produces is one of the eight variants, every
\* Heading it produces has a Level in 1..6 that is the digit of an h1..h6
\* element of the input, and Render on the page of a successful Parse
\* returns no error.
C29_ParsedPageRenders ==
    /\ (res.op \in {"Parse", "RenderParsed"} /\ res.page # NilPage) =>
          \A i \in 1..Len(res.page.Blocks) :
              /\ res.page.Blocks[i].type \in BlockTypes
              /\ res.page.Blocks[i].type = "heading" =>
                    /\ res.page.Blocks[i].Level \in 1..6
                    /\ HName(res.page.Blocks[i].Level) \in StartNamesIn(xhtml)
    /\ res.op = "RenderParsed" => ~res.err

\* C29 witness: Render has returned on a parsed page that holds a heading
\* of level 6 and whose input also had an h7 element.
C29_Witness ==
    /\ res.op = "RenderParsed" /\ ~res.err /\ res.out # <<>>
    /\ \E i \in 1..Len(res.page.Blocks) :
           res.page.Blocks[i].type = "heading" /\ res.page.Blocks[i].Level = 6
    /\ "h7" \in StartNamesIn(xhtml)

(***************************************************************************)
(* Claims about the stdio transport (SpecStdio, SpecStdioFair).            *)
(***************************************************************************)
\* The newline-terminated lines of a byte sequence, without their newline;
\* what follows the last newline is left out.
RECURSIVE LinesOf(_, _)
LinesOf(bytes, line) ==
    IF bytes = <<>> THEN <<>>
    ELSE IF Head(bytes) = NL THEN <<line>> \o LinesOf(Tail(bytes), <<>>)
    ELSE LinesOf(Tail(bytes), Append(line, Head(bytes)))
LinesRead(in) == LinesOf(SubSeq(in.buf, 1, in.pos), <<>>)

\* The responses a line may produce: one carrying the id of the request for
\* an id that is not null (error -32601 exactly for a method that is not
\* served), none for a message without id, one error -32700 with null id
\* for a line that is not one JSON value or object.
Served == {"initialize", "tools/list", "tools/call", "ping"}
Answers(line, seg) ==
    IF Len(line) = 1 /\ line[1].t = "request"
    THEN CASE line[1].id.j \in {"number", "string"} ->
                /\ Len(seg) = 1
                /\ seg[1].ID = line[1].id
                /\ seg[1].Error # -32700
                /\ seg[1].Error = -32601 <=> line[1].method \notin Served
           [] line[1].id.j = "absent" -> seg = <<>>
           [] OTHER -> Len(seg) <= 1
    ELSE IF line = <<Text("null")>> THEN Len(seg) <= 1
    ELSE seg = <<Response(IdNull, "", -32700)>>

RECURSIVE InOrder(_, _)
InOrder(lines, out) ==
    IF lines = <<>> THEN out = <<>>
    ELSE \E k \in 0..1 :
           /\ k <= Len(out)
           /\ Answers(Head(lines), SubSeq(out, 1, k))
           /\ InOrder(Tail(lines), SubSeq(out, k + 1, Len(out)))

\* C26: after every step of runStdio the responses written are, in the order
\* the lines were read, those of the lines read so far: exactly one with the
\* request's id for each request with a non-null id, none for a
\* notification, one error -32700 with null id for an undecodable line.
C26_OneResponsePerLine == InOrder(LinesRead(stdin), stdout)

\* C30: runStdio returns nil when the input has ended, which it always
\* does; the step that returns finds no newline in what is left, writes
\* nothing and dispatches nothing, and every response written answers a line
\* that ended in a newline.
C30_EOFDiscardsFragment ==
    /\ [][ (ret = "none" /\ ret' = "nil") =>
             /\ \A i \in stdin.pos + 1..Len(stdin.buf) : stdin.buf[i] # NL
             /\ stdin'.pos = Len(stdin.buf)
             /\ stdout' = stdout
             /\ UNCHANGED <<tool, calls, log>> ]_vars
    /\ [][ stdout' # stdout =>
             /\ ret' = "none"
             /\ Len(stdout') = Len(stdout) + 1
             /\ stdin'.buf[stdin'.pos] = NL ]_vars
    /\ <>(ret = "nil")

\* C30 witness: runStdio has returned nil on an input that ends in a request
\* with an id and without a newline, after it answered an earlier line.
C30_Witness ==
    /\ ret = "nil"
    /\ stdin.buf # <<>>
    /\ Last(stdin.buf).t = "request"
    /\ Last(stdin.buf).id.j = "number"
    /\ Last(stdin.buf).method = "ping"
    /\ stdout # <<>>
    /\ Len(stdout) = Len(SelectSeq(stdin.buf, LAMBDA b : b = NL))

(***************************************************************************)
(* Claims about concurrent calls (SpecConcurrent).                         *)
(***************************************************************************)
\* What the call returns when it runs alone, its maps iterated in the
\* orders c.ords.
Alone(c) ==
    CASE c.op = "Validate"            -> Validate(c.x)
      [] c.op = "ValidateWithOptions" -> ValidateWithOptions(c.x, CallerOptions)
      [] c.op = "Parse"               -> Parse(c.x)
      [] c.op = "Render"  ->
           Render(page, [i \in 1..Len(page.Blocks) |->
                            IF i <= Len(c.ords) THEN c.ords[i] ELSE c.ords[1]])
      [] OTHER                        -> RenderBlock(page.Blocks[1], c.ords[1])

\* C21: under every interleaving each call that has returned returned what
\* it returns alone, and no step changes the package-level ForbiddenTags and
\* AllowedMacros, the callers' option set or the input Page.
C21_ConcurrentCallsIndependent ==
    /\ [](\A g \in Goroutines : calls[g].pc = "done" => calls[g].result = Alone(calls[g]))
    /\ [](opts[1].ForbiddenTags = ForbiddenTags /\ opts[2] = CallerOptions)
    /\ [][AllowedMacros' = AllowedMacros /\ opts' = opts /\ page' = page]_vars

\* C21 witness: a Validate call has rejected a table whose tr has no tbody
\* while a ValidateWithOptions call on another input, with other options,
\* is past its tbody start-tag.
C21_Witness ==
    \E g, h \in Goroutines :
        /\ calls[g].op = "Validate" /\ calls[g].pc = "done"
        /\ calls[g].result = ValidationError("<tr> must be inside <tbody>", <<"tr">>)
        /\ calls[h].op = "ValidateWithOptions" /\ calls[h].pc = "running"
        /\ calls[h].x # calls[g].x
        /\ calls[h].i > 3

====
